---- MODULE Spec2Model ----
(***************************************************************************)
(* The story state machine of bat/story.py: State, Chapter, the condition  *)
(* classes that have an enable/disable lifecycle, and the part of the      *)
(* EventBus they register with.                                            *)
(*                                                                         *)
(* One Chapter is modelled.  Its story graph is authored once, at          *)
(* construction time (the variable `story`), and never changes afterwards. *)
(* Chapter.progress is one atomic action (Progress): the code is           *)
(* single-threaded and runs a whole tick synchronously.                    *)
(***************************************************************************)
EXTENDS Integers, Sequences, FiniteSets, TLC

\* ------------------------------------------------------------------ bounds
MaxTime == 1          \* time.time() is sampled in 0..MaxTime
MaxTicks == 3         \* number of Chapter.progress calls explored
Duration == 0         \* the duration every CondWait of the story is built with

\* The value of CondWait.start before enable(True) and after enable(False).
None == -1

\* --------------------------------------------------------- the story graph
\* Zero and Root are created by Chapter.__init__; A, B, S1, S2 and Sup are
\* the states a subclass adds.  Sup is the super state (when the story has one).
NoState == "None"
StateNames == {"Zero", "Root", "A", "B", "S1", "S2", "Sup"}

\* State.transitions, in add_successor order.  A is a successor both of Root
\* and of the super state.
Transitions(s) ==
    CASE s = "Zero" -> <<"Root">>
      [] s = "Root" -> <<"A", "B">>
      [] s = "A"    -> <<"B">>
      [] s = "B"    -> <<"Root">>
      [] s = "Sup"  -> <<"A">>
      [] OTHER      -> <<>>

\* State.subSteps, in add_sub_step order.
SubSteps(s) ==
    CASE s = "Root" -> <<"S1", "S2">>
      [] OTHER      -> <<>>

\* State.actions, in add_action order.
Actions(s) ==
    CASE s = "Root" -> <<"r1", "r2">>
      [] s = "A"    -> <<"a1">>
      [] s = "B"    -> <<"b1", "b2">>
      [] s = "S1"   -> <<"s1">>
      [] s = "S2"   -> <<"s2">>
      [] s = "Sup"  -> <<"u1">>
      [] OTHER      -> <<>>

\* The actions that may throw when executed (an input of each tick).
Faulty == {"r1", "s1"}

\* b2 is an ActEvent; the others have no effect on the state machine.
Messages == {"go", "other"}
Bodies == {1, 2}
Events == [message : Messages, body : Bodies]
EventOfAction(a) == [message |-> "go", body |-> 2]
IsActEvent(a) == a = "b2"

\* Every event condition of the story is built with this message and body.
CondMessage == "go"
CondBody == 1

\* Condition classes.
EventKinds == {"event", "eventEq", "eventNe"}
Kinds == {"sensor", "wait"} \cup EventKinds

\* State.conditions of each state, chosen when the story is authored.
RootOpts == {<<>>, <<"sensor">>, <<"event">>, <<"wait">>}
AOpts == {<<>>, <<"wait">>, <<"sensor", "eventEq">>}
BOpts == {<<>>, <<"sensor">>}
Stories ==
    { [conds |-> [s \in StateNames |->
                    CASE s = "Root" -> r
                      [] s = "A"    -> a
                      [] s = "B"    -> b
                      [] s = "S1"   -> <<"sensor">>
                      [] s = "S2"   -> <<"eventNe">>
                      [] OTHER      -> <<>>],
       super |-> sup] :
      r \in RootOpts, a \in AOpts, b \in BOpts, sup \in BOOLEAN }

\* A condition object is identified by the state it gates and its class: a
\* state of the story has at most one condition of each class.
Conds == [owner : StateNames, kind : Kinds]
WaitOwners == {"Root", "A"}

VARIABLES
    story,          \* the authored graph: conditions per state, super state or not
    currentState,   \* Chapter.currentState
    super_active,   \* Chapter.super_active
    listeners,      \* EventBus.listeners: the registered event conditions
    triggered,      \* the event conditions whose .triggered is True
    start,          \* CondWait.start of the (only) CondWait gating each state
    now,            \* time.time()
    log,            \* what the last Chapter.progress call did, in order
    failed,         \* the last Chapter.progress call ended by an exception
    ticks,          \* number of Chapter.progress calls so far
    hops,           \* number of Chapter.transition calls so far
    entered,        \* the time at which currentState became the current state
    since           \* the same, for the state that was current when the last
                    \* tick began

vars == <<story, currentState, super_active, listeners, triggered, start, now,
          log, failed, ticks, hops, entered, since>>

\* The objects the story machine is built from are modelled on their own
\* further down, each under a specification of its own; a specification
\* leaves the variables of the others at their initial values.
VARIABLES
    actFrame,       \* KX_GameObject.getActionFrame(layer), in hundredths
    geTriggered,    \* the CondActionGE objects whose .triggered is True
    tapHist,        \* the evaluations of the tap-mode CondActionGE so far
    lastPair,       \* the last two back-to-back evaluations of one condition
    received        \* the events notified since the conditions were enabled

condVars == <<actFrame, geTriggered, tapHist, lastPair, received>>

VARIABLES
    busListeners,   \* EventBus.listeners.bag
    busValid,       \* the listeners that are not invalid (freed) game objects
    curScene,       \* bge.logic.getCurrentScene()
    eventQueue,     \* EventBus.eventQueue
    eventCache,     \* EventBus.eventCache
    dispPending,    \* SceneDispatch.pending of the dispatcher of each scene
    sent,           \* every event passed to EventBus.notify so far
    calls,          \* number of EventBus.process_queue calls so far
    deliveries,     \* the EventBus._notify calls so far, in order
    deferred,       \* the calls ever queued on a dispatcher
    ran,            \* the queued calls a dispatcher has run
    busLog          \* what the last call on the bus or a dispatcher did

busVars == <<busListeners, busValid, curScene, eventQueue, eventCache,
             dispPending, sent, calls, deliveries, deferred, ran, busLog>>

VARIABLES
    objValid,       \* the game objects that are not invalid (freed)
    bag,            \* SafeSet.bag
    deadBag,        \* SafeSet.deadBag
    members,        \* the objects added to the set and not taken out since
    iterState,      \* "none", "open" or "done": the iterator over the set
    iterRest,       \* what the open iterator has still to visit
    iterSize,       \* the size of bag when the iterator was opened
    yielded,        \* what the iterator has yielded
    lastYield,      \* what the iterator yielded last
    broken,         \* the iterator has raised RuntimeError
    setLog          \* the last __contains__ or __len__ call and its result

setVars == <<objValid, bag, deadBag, members, iterState, iterRest, iterSize,
             yielded, lastYield, broken, setLog>>

VARIABLES
    stValid,        \* the stacked game objects that are not invalid (freed)
    stList,         \* SafePriorityStack._list
    stPrio,         \* SafePriorityStack.priorities
    recency,        \* the objects on the stack, lowest priority first and,
                    \* at the same priority, the last pushed last
    given           \* the priority each object on the stack was pushed with

stackVars == <<stValid, stList, stPrio, recency, given>>

VARIABLES
    currentTrack,   \* Jukebox.current_track
    trackCache,     \* the names in Jukebox.track_cache
    playing,        \* the tracks whose sample is playing
    fading,         \* the tracks whose sample has a fade-out Fader
    jbLog           \* the last play_files or stop call: what it met and what
                    \* it did

jukeVars == <<currentTrack, trackCache, playing, fading, jbLog>>

VARIABLES
    inputLog        \* the calls of the last Input.distribute_events, in order

inputVars == <<inputLog>>

VARIABLES
    btnSensors,     \* Button.sensors, as the set of the bound sensors
    btnPositive,    \* Button.positive
    btnTriggered,   \* Button.triggered
    btnSource,      \* Button.source
    downs           \* for each Button.update so far, whether a bound sensor
                    \* was positive

buttonVars == <<btnSensors, btnPositive, btnTriggered, btnSource, downs>>

\* Everything but the story machine, but the conditions, but the bus, but
\* the set, but the stack, but the jukebox (whose stack is stList, stPrio),
\* but the input (whose handlers are the stack).
VARIABLES
    blockedTransitions, \* State.blocked_transitions of each state
    twin                \* the last tick as it goes at the other log level

debugVars == <<blockedTransitions, twin>>

partVars ==
    <<condVars, busVars, setVars, stackVars, jukeVars, inputVars, buttonVars,
      debugVars>>
notCond ==
    <<busVars, setVars, stackVars, jukeVars, inputVars, buttonVars, debugVars>>
notBus ==
    <<condVars, setVars, stackVars, jukeVars, inputVars, buttonVars, debugVars>>
notSet ==
    <<condVars, busVars, stackVars, jukeVars, inputVars, buttonVars, debugVars>>
notStack ==
    <<condVars, busVars, setVars, jukeVars, inputVars, buttonVars, debugVars>>
notJuke ==
    <<condVars, busVars, setVars, stValid, recency, given, inputVars,
      buttonVars, debugVars>>
notInput == <<condVars, busVars, setVars, jukeVars, buttonVars, debugVars>>
notButton ==
    <<condVars, busVars, setVars, stackVars, jukeVars, inputVars, debugVars>>
notDebug ==
    <<condVars, busVars, setVars, stackVars, jukeVars, inputVars, buttonVars>>

\* State.conditions, as condition objects.
Conditions(s) ==
    [i \in 1..Len(story.conds[s]) |-> [owner |-> s, kind |-> story.conds[s][i]]]

\* The sensors of the controller that some CondSensor of the story reads: the
\* CondSensor gating state s reads the sensor named s.
Sensors == {s \in StateNames : \E i \in 1..Len(story.conds[s]) : story.conds[s][i] = "sensor"}

\* Chapter.super_state
SuperState == IF story.super THEN "Sup" ELSE NoState

\* ------------------------------------------------------------ one tick
\* The mutable state a tick works on, threaded through the calls:
\*   cur, sa, lis, trig, start: the variables; log: the tick's trace;
\*   err: an exception is propagating; hops: transitions made;
\*   ctx, ph: where the tick is, for the trace: the state whose method runs
\*   and the part of it ("sub": the sub-step loop of State.progress, "scan":
\*   its transition loop, "enter": Chapter.transition, "super": the
\*   activation of the super state).
\* A trace entry: op is the call ("progress", "test", "evalT"/"evalF"/"evalE",
\* "pass", "block", "return", "enable", "disable", "exec", "caught", "trans"),
\* a and b its subject (a state, an action, or a condition's owner and class).
Entry(m, op, a, b) == [op |-> op, a |-> a, b |-> b, ctx |-> m.ctx, ph |-> m.ph]
Logged(m, op, a, b) == [m EXCEPT !.log = Append(@, Entry(m, op, a, b))]
At(m, ctx, ph) == [m EXCEPT !.ctx = ctx, !.ph = ph]

\* on_event of CondEventNe taking anything but the configured message and
\* body for a match, as the negation of CondEventEq would.
MatchesNegated(c, evt) ==
    CASE c.kind = "event"   -> evt.message = CondMessage
      [] c.kind = "eventEq" -> evt.message = CondMessage /\ evt.body = CondBody
      [] c.kind = "eventNe" -> ~(evt.message = CondMessage /\ evt.body = CondBody)
      [] OTHER              -> FALSE

\* CondEvent.on_event / CondEventEq.on_event / CondEventNe.on_event
Matches(c, evt) ==
    CASE c.kind = "event"   -> evt.message = CondMessage
      [] c.kind = "eventEq" -> evt.message = CondMessage /\ evt.body = CondBody
      [] c.kind = "eventNe" -> evt.message = CondMessage /\ evt.body # CondBody
      [] OTHER              -> FALSE

\* EventBus._notify: on_event on every listener.
BusNotify(m, evt) ==
    [m EXCEPT !.trig = @ \cup {c \in m.lis : Matches(c, evt)}]

\* Condition.enable, CondEvent*.enable, CondWait.enable
Enable(m, c, enabled) ==
    LET m1 == Logged(m, IF enabled THEN "enable" ELSE "disable", c.owner, c.kind)
    IN  CASE c.kind \in EventKinds ->
                IF enabled
                THEN [m1 EXCEPT !.lis = @ \cup {c}]
                ELSE [m1 EXCEPT !.lis = @ \ {c}, !.trig = @ \ {c}]
          [] c.kind = "wait" ->
                [m1 EXCEPT !.start[c.owner] = IF enabled THEN now ELSE None]
          [] OTHER -> m1

RECURSIVE EnableAll(_, _, _, _)
EnableAll(m, cs, i, enabled) ==
    IF i > Len(cs) THEN m
    ELSE EnableAll(Enable(m, cs[i], enabled), cs, i + 1, enabled)

\* State.parent_activated
ParentActivated(m, s, activated) == EnableAll(m, Conditions(s), 1, activated)

RECURSIVE ParentActivatedAll(_, _, _, _)
ParentActivatedAll(m, ss, i, activated) ==
    IF i > Len(ss) THEN m
    ELSE ParentActivatedAll(ParentActivated(m, ss[i], activated), ss, i + 1, activated)

\* One iteration of the loop of State.execute: the call of act.execute, and
\* the except clause that swallows what it throws.
ExecuteAction(m, a, raises) ==
    LET m1 == Logged(m, "exec", a, "")
    IN  IF a \in raises THEN Logged(m1, "caught", a, "")
        ELSE IF IsActEvent(a) THEN BusNotify(m1, EventOfAction(a))
        ELSE m1

\* ExecuteFrom with the try around the loop instead of inside it: the first
\* action that throws ends the loop.
RECURSIVE ExecuteFromAbort(_, _, _, _)
ExecuteFromAbort(m, as, i, raises) ==
    IF i > Len(as) THEN m
    ELSE IF as[i] \in raises THEN ExecuteAction(m, as[i], raises)
    ELSE ExecuteFromAbort(ExecuteAction(m, as[i], raises), as, i + 1, raises)

RECURSIVE ExecuteFrom(_, _, _, _)
ExecuteFrom(m, as, i, raises) ==
    IF i > Len(as) THEN m
    ELSE ExecuteFrom(ExecuteAction(m, as[i], raises), as, i + 1, raises)

\* State.execute
Execute(m, s, raises) == ExecuteFrom(m, Actions(s), 1, raises)

\* State.activate without the loop over the sub-steps.
ActivateNoSubSteps(m, s, raises) ==
    Execute(ParentActivatedAll(m, Transitions(s), 1, TRUE), s, raises)

\* State.activate
Activate(m, s, raises) ==
    Execute(ParentActivatedAll(ParentActivatedAll(m, Transitions(s), 1, TRUE),
                               SubSteps(s), 1, TRUE),
            s, raises)

\* State.deactivate
Deactivate(m, s) ==
    ParentActivatedAll(ParentActivatedAll(m, Transitions(s), 1, FALSE),
                       SubSteps(s), 1, FALSE)

\* Condition.evaluate: "T", "F", or "E" when it throws (CondWait compares a
\* float with None when it was never enabled: a TypeError).
Evaluate(m, c, sens) ==
    CASE c.kind = "sensor" -> IF c.owner \in sens THEN "T" ELSE "F"
      [] c.kind \in EventKinds -> IF c \in m.trig THEN "T" ELSE "F"
      [] c.kind = "wait" ->
            IF m.start[c.owner] = None THEN "E"
            ELSE IF now - Duration > m.start[c.owner] THEN "T" ELSE "F"

\* State.test: the conditions in order, stopping at the first that fails.
RECURSIVE TestFrom(_, _, _, _, _)
TestFrom(m, s, cs, i, sens) ==
    IF i > Len(cs) THEN [m |-> Logged(m, "pass", s, ""), ok |-> TRUE]
    ELSE LET r == Evaluate(m, cs[i], sens)
             m1 == Logged(m, "eval" \o r, cs[i].owner, cs[i].kind)
         IN  CASE r = "E" -> [m |-> [m1 EXCEPT !.err = TRUE], ok |-> FALSE]
               [] r = "F" -> [m |-> Logged(m1, "block", s, ""), ok |-> FALSE]
               [] OTHER   -> TestFrom(m1, s, cs, i + 1, sens)

Test(m, s, sens) == TestFrom(Logged(m, "test", s, ""), s, Conditions(s), 1, sens)

\* The first loop of State.progress: every sub-step is tested, and executed
\* when its test passes.
RECURSIVE RunSubSteps(_, _, _, _, _)
RunSubSteps(m, ss, i, sens, raises) ==
    IF i > Len(ss) \/ m.err THEN m
    ELSE LET t == Test(m, ss[i], sens)
         IN  RunSubSteps(IF t.ok THEN Execute(t.m, ss[i], raises) ELSE t.m,
                         ss, i + 1, sens, raises)

\* ScanTransitions without the break: a later satisfied transition replaces
\* an earlier one.
RECURSIVE ScanTransitionsNoBreak(_, _, _, _)
ScanTransitionsNoBreak(m, ts, i, sens) ==
    IF i > Len(ts) \/ m.err THEN [m |-> m, target |-> NoState]
    ELSE LET t == Test(m, ts[i], sens)
             rest == ScanTransitionsNoBreak(t.m, ts, i + 1, sens)
         IN  IF t.ok /\ rest.target = NoState THEN [m |-> rest.m, target |-> ts[i]]
             ELSE rest

\* The second loop of State.progress: the first transition whose test passes.
RECURSIVE ScanTransitions(_, _, _, _)
ScanTransitions(m, ts, i, sens) ==
    IF i > Len(ts) \/ m.err THEN [m |-> m, target |-> NoState]
    ELSE LET t == Test(m, ts[i], sens)
         IN  IF t.ok THEN [m |-> t.m, target |-> ts[i]]
             ELSE ScanTransitions(t.m, ts, i + 1, sens)

\* State.progress that also runs the state's own actions on every tick.
StateProgressReexecute(m, s, sens, raises) ==
    LET m0 == Execute(Logged(At(m, s, "sub"), "progress", s, ""), s, raises)
        m1 == RunSubSteps(m0, SubSteps(s), 1, sens, raises)
        p  == ScanTransitions(At(m1, s, "scan"), Transitions(s), 1, sens)
    IN  IF p.m.err THEN p
        ELSE [m |-> Logged(p.m, "return", p.target, ""), target |-> p.target]

\* State.progress with the sub-steps run only when no transition is found.
StateProgressIdleSubSteps(m, s, sens, raises) ==
    LET p == ScanTransitions(Logged(At(m, s, "scan"), "progress", s, ""),
                             Transitions(s), 1, sens)
        m1 == IF p.target = NoState
              THEN RunSubSteps(At(p.m, s, "sub"), SubSteps(s), 1, sens, raises)
              ELSE p.m
    IN  IF m1.err THEN [m |-> m1, target |-> NoState]
        ELSE [m |-> Logged(At(m1, s, "scan"), "return", p.target, ""),
              target |-> p.target]

\* State.progress
StateProgress(m, s, sens, raises) ==
    LET m1 == RunSubSteps(Logged(At(m, s, "sub"), "progress", s, ""),
                          SubSteps(s), 1, sens, raises)
        p  == ScanTransitions(At(m1, s, "scan"), Transitions(s), 1, sens)
    IN  IF p.m.err THEN p
        ELSE [m |-> Logged(p.m, "return", p.target, ""), target |-> p.target]

\* Chapter.transition
Transition(m, s, raises) ==
    LET m1 == Deactivate(At(m, s, "enter"), m.cur)
        m2 == Logged([m1 EXCEPT !.cur = s, !.hops = @ + 1], "trans", s, "")
    IN  Activate(m2, s, raises)

\* The second half of Chapter.progress: the super state.
SuperProgress(m, sens, raises) ==
    IF SuperState = NoState THEN m
    ELSE LET m1 == IF m.sa THEN m
                   ELSE [Activate(At(m, SuperState, "super"), SuperState, raises)
                            EXCEPT !.sa = TRUE]
             p == StateProgress(m1, SuperState, sens, raises)
         IN  IF p.m.err \/ p.target = NoState THEN p.m
             ELSE Transition([Deactivate(At(p.m, SuperState, "super"), SuperState)
                                 EXCEPT !.sa = FALSE],
                             p.target, raises)

\* Chapter.progress that goes on to evaluate the state it has just entered.
ChapterProgressEager(m, sens, raises) ==
    LET p == IF m.cur = NoState THEN [m |-> m, target |-> NoState]
             ELSE StateProgress(m, m.cur, sens, raises)
    IN  IF p.m.err THEN p.m
        ELSE IF p.target # NoState
        THEN StateProgress(Transition(p.m, p.target, raises), p.target, sens, raises).m
        ELSE SuperProgress(p.m, sens, raises)

\* Chapter.progress with the super state evaluated first.
ChapterProgressSuperFirst(m, sens, raises) ==
    LET m1 == SuperProgress(m, sens, raises)
        p  == StateProgress(m1, m1.cur, sens, raises)
    IN  IF m1.err \/ m1.hops > m.hops THEN m1
        ELSE IF p.m.err \/ p.target = NoState THEN p.m
        ELSE Transition(p.m, p.target, raises)

\* Chapter.progress that keeps going: it evaluates the state it has entered
\* and follows its transition too.
ChapterProgressTwice(m, sens, raises) ==
    LET p  == StateProgress(m, m.cur, sens, raises)
        m1 == Transition(p.m, p.target, raises)
        q  == StateProgress(m1, m1.cur, sens, raises)
    IN  IF p.m.err THEN p.m
        ELSE IF p.target = NoState THEN SuperProgress(p.m, sens, raises)
        ELSE IF q.m.err \/ q.target = NoState THEN q.m
        ELSE Transition(q.m, q.target, raises)

\* Chapter.progress
ChapterProgress(m, sens, raises) ==
    LET p == IF m.cur = NoState THEN [m |-> m, target |-> NoState]
             ELSE StateProgress(m, m.cur, sens, raises)
    IN  IF p.m.err THEN p.m
        ELSE IF p.target # NoState THEN Transition(p.m, p.target, raises)
        ELSE SuperProgress(p.m, sens, raises)

\* --------------------------------------------------------------- actions
\* CondActionGE.__init__: not triggered; nothing evaluated or received yet.
CondIdle ==
    /\ actFrame = 0
    /\ geTriggered = {}
    /\ tapHist = <<>>
    /\ lastPair = <<>>
    /\ received = {}

\* Who listens to the bus: "a" has no scene attribute, "h" lives in scene
\* "hud".
Listeners == {"a", "h"}
Scenes == {"main", "hud"}
NoScene == "none"

\* EventBus.__init__ and SceneDispatch.__init__
BusInit ==
    /\ busListeners = {}
    /\ busValid = Listeners
    /\ curScene = "main"
    /\ eventQueue = <<>>
    /\ eventCache = [msg \in Messages |-> None]
    /\ dispPending = [sc \in Scenes |-> <<>>]
    /\ sent = <<>>
    /\ calls = 0
    /\ deliveries = <<>>
    /\ deferred = {}
    /\ ran = {}
    /\ busLog = [op |-> "", id |-> None, l |-> "", msg |-> "",
                 before |-> <<>>, trace |-> <<>>]

\* The game objects put into containers.
MaxItems == 3
Items == 1..MaxItems

\* SafeSet.__init__ with no iterable; no iterator yet.
SetInit ==
    /\ objValid = Items
    /\ bag = {}
    /\ deadBag = {}
    /\ members = {}
    /\ iterState = "none"
    /\ iterRest = {}
    /\ iterSize = 0
    /\ yielded = {}
    /\ lastYield = None
    /\ broken = FALSE
    /\ setLog = [op |-> "", item |-> None, r |-> None]

\* SafePriorityStack.__init__
StackInit ==
    /\ stValid = Items
    /\ stList = <<>>
    /\ stPrio = [item \in Items |-> None]
    /\ recency = <<>>
    /\ given = [item \in Items |-> None]

\* Jukebox.__init__; no play_files or stop call yet.
NoPlay ==
    [op |-> "", track |-> None, priority |-> None, higher |-> FALSE,
     current |-> None, wasPlaying |-> FALSE, wasStacked |-> FALSE,
     rest |-> {}, played |-> {}, stopped |-> {}]

JukeboxInit ==
    /\ currentTrack = None
    /\ trackCache = {}
    /\ playing = {}
    /\ fading = {}
    /\ jbLog = NoPlay

\* Input.__init__; no distribute_events call yet.
NoInput == [ran |-> FALSE, trace |-> <<>>]

InputInit == inputLog = NoInput

SRC_NONE == 0
SRC_KEYBOARD == 1
SRC_JOYSTICK == 2

\* Button.__init__
ButtonInit ==
    /\ btnSensors = {}
    /\ btnPositive = FALSE
    /\ btnTriggered = FALSE
    /\ btnSource = SRC_NONE
    /\ downs = <<>>

\* State.__init__: nothing blocked yet; no tick yet.
NoTwin == [ran |-> FALSE, m |-> <<>>]

DebugInit ==
    /\ blockedTransitions = [s \in StateNames |-> {}]
    /\ twin = NoTwin

PartsIdle ==
    /\ CondIdle /\ BusInit /\ SetInit /\ StackInit /\ JukeboxInit
    /\ InputInit /\ ButtonInit /\ DebugInit

\* Chapter.__init__: no condition has been enabled yet.
ChapterInit ==
    /\ currentState = "Zero"
    /\ super_active = FALSE
    /\ listeners = {}
    /\ triggered = {}
    /\ start = [s \in WaitOwners |-> None]
    /\ now = 0
    /\ log = <<>>
    /\ failed = FALSE
    /\ ticks = 0
    /\ hops = 0
    /\ entered = 0
    /\ since = 0

\* The subclass has authored the story and may have set super_state.
Init ==
    /\ PartsIdle
    /\ story \in Stories
    /\ ChapterInit

Machine ==
    [cur |-> currentState, sa |-> super_active, lis |-> listeners,
     trig |-> triggered, start |-> start, log |-> <<>>, err |-> FALSE,
     hops |-> hops, ctx |-> "", ph |-> ""]

\* One engine tick: Chapter.progress, with the sensors that are positive and
\* the actions that throw on this tick as inputs.
Progress ==
    /\ ticks < MaxTicks
    /\ \E sens \in SUBSET Sensors, raises \in SUBSET Faulty :
         \E m \in {ChapterProgress(Machine, sens, raises)} :
             /\ currentState' = m.cur
             /\ super_active' = m.sa
             /\ listeners' = m.lis
             /\ triggered' = m.trig
             /\ start' = m.start
             /\ log' = m.log
             /\ failed' = m.err
             /\ hops' = m.hops
             /\ entered' = IF m.hops > hops THEN now ELSE entered
    /\ since' = entered
    /\ ticks' = ticks + 1
    /\ UNCHANGED <<story, now>>
    /\ UNCHANGED partVars

\* Another object sends an event: EventBus.notify with no delay.
Notify ==
    /\ \E evt \in Events :
         triggered' = BusNotify(Machine, evt).trig
    /\ UNCHANGED <<story, currentState, super_active, listeners, start, now,
                   log, failed, ticks, hops, entered, since>>
    /\ UNCHANGED partVars

\* Time passes between two ticks.
AdvanceClock ==
    /\ now < MaxTime
    /\ now' = now + 1
    /\ UNCHANGED <<story, currentState, super_active, listeners, triggered,
                   start, log, failed, ticks, hops, entered, since>>
    /\ UNCHANGED partVars

Next == Progress \/ Notify \/ AdvanceClock

Spec == Init /\ [][Next]_vars

\* ------------------------------------------------- reading the tick's trace
\* The entries of part ph of the call of s.progress (or of the entry to s).
In(s, ph) == {i \in DOMAIN log : log[i].ctx = s /\ log[i].ph = ph}

\* The state that was current when the tick began.
TickState == IF log = <<>> THEN NoState ELSE log[1].a

\* The subjects of the trace entries `op` of a part, in order.
RECURSIVE SubjectsFrom(_, _, _, _)
SubjectsFrom(s, ph, op, i) ==
    IF i > Len(log) THEN <<>>
    ELSE (IF i \in In(s, ph) /\ log[i].op = op THEN <<log[i].a>> ELSE <<>>)
         \o SubjectsFrom(s, ph, op, i + 1)
Subjects(s, ph, op) == SubjectsFrom(s, ph, op, 1)

\* In part ph of s, every condition of candidate t evaluated true.
Satisfied(s, ph, t) ==
    \A k \in 1..Len(story.conds[t]) :
        \E i \in In(s, ph) :
            log[i].op = "evalT" /\ log[i].a = t /\ log[i].b = story.conds[t][k]

\* In part ph of s, some condition of candidate t evaluated false.
Refuted(s, ph, t) ==
    \E i \in In(s, ph) : log[i].op = "evalF" /\ log[i].a = t

\* What s.progress returned on this tick (empty when it was not called, or threw).
Returned(s) == {log[i].a : i \in {j \in In(s, "scan") : log[j].op = "return"}}

\* ------------------------------------------------------------------ claims

\* C1: State.progress scans the transitions in the order they were added and
\* returns the first whose every condition evaluated true: the candidates it
\* tested are a prefix of the transition list, every candidate before the
\* returned one had a condition that evaluated false, and it returns None
\* only when every candidate had one.
C1_FirstSatisfiedWins ==
    \A s \in StateNames : \A r \in Returned(s) :
        LET ts == Transitions(s)
            tested == Subjects(s, "scan", "test")
        IN  /\ Len(tested) <= Len(ts) /\ tested = SubSeq(ts, 1, Len(tested))
            /\ IF r = NoState
               THEN /\ Len(tested) = Len(ts)
                    /\ \A k \in DOMAIN ts : Refuted(s, "scan", ts[k])
               ELSE /\ tested # <<>> /\ r = tested[Len(tested)]
                    /\ Satisfied(s, "scan", r)
                    /\ \A j \in 1..(Len(tested) - 1) : Refuted(s, "scan", ts[j])

\* C1 witness: Root.progress returned A, its first transition, on a tick
\* where B, its second, has no condition at all and so was satisfied too.
C1_Witness ==
    /\ "A" \in Returned("Root")
    /\ story.conds["A"] # <<>>
    /\ story.conds["B"] = <<>>

\* The actions a sub-step loop over ss has to execute: those of each
\* sub-step whose conditions all evaluated true, in sub-step order.
RECURSIVE DueSubStepActions(_, _, _)
DueSubStepActions(s, ss, i) ==
    IF i > Len(ss) THEN <<>>
    ELSE (IF Satisfied(s, "sub", ss[i]) THEN Actions(ss[i]) ELSE <<>>)
         \o DueSubStepActions(s, ss, i + 1)

\* C2: on every tick every sub-step of the current state is tested, the
\* actions of exactly the sub-steps whose conditions all evaluated true are
\* executed, and all of this happens before the first transition is tested,
\* on ticks that transition and on ticks that do not.
C2_SubStepsEveryTick ==
    TickState # NoState =>
        LET s == TickState
        IN  /\ Subjects(s, "sub", "test") = SubSteps(s)
            /\ Subjects(s, "sub", "exec") = DueSubStepActions(s, SubSteps(s), 1)
            /\ \A i \in In(s, "sub") : \A j \in DOMAIN log :
                   (log[j].ph = "scan" \/ log[j].op = "trans") => i < j

\* C2 witness: a tick that began in Root executed both sub-steps and then
\* left Root.
C2_Witness ==
    /\ TickState = "Root"
    /\ Subjects("Root", "sub", "exec") = <<"s1", "s2">>
    /\ \E j \in DOMAIN log : log[j].op = "trans"
    /\ currentState # "Root"

\* The states gated by the transitions and sub-steps of s.
Children(s) ==
    {Transitions(s)[i] : i \in DOMAIN Transitions(s)}
        \cup {SubSteps(s)[i] : i \in DOMAIN SubSteps(s)}

\* s is a live candidate: a successor or sub-step of the current state, or of
\* the super state while it is active.
Live(s) ==
    \/ currentState # NoState /\ s \in Children(currentState)
    \/ super_active /\ s \in Children(SuperState)

\* The event-subscription conditions of the story.
EventConds ==
    {c \in Conds : c.kind \in EventKinds
                   /\ \E i \in DOMAIN story.conds[c.owner] : story.conds[c.owner][i] = c.kind}

\* C3: between ticks, an event-subscription condition gating state S is
\* registered as an EventBus listener if and only if S is a live candidate.
C3_RegisteredIffLive ==
    \A c \in EventConds : c \in listeners <=> Live(c.owner)

\* C4: when an action throws while the target of a transition executes its
\* actions, the exception does not leave the tick, every action of that
\* state is still executed, in order, and the target is the current state.
C4_RaiseSwallowed ==
    \A i \in DOMAIN log :
        log[i].op = "caught" /\ log[i].ph = "enter" =>
            LET t == log[i].ctx
            IN  /\ Subjects(t, "enter", "exec") = Actions(t)
                /\ currentState = t
                /\ ~failed

\* C4 witness: r1, the first action of Root, threw during the transition to
\* Root; r2 was executed after it and Root is current.
C4_Witness ==
    /\ \E i \in DOMAIN log :
           log[i].op = "caught" /\ log[i].a = "r1" /\ log[i].ph = "enter"
    /\ Subjects("Root", "enter", "exec") = <<"r1", "r2">>
    /\ currentState = "Root"

\* The actions of state t that were executed during the tick, in order,
\* wherever in the tick that happened.
RECURSIVE ExecutedFrom(_, _)
ExecutedFrom(t, i) ==
    IF i > Len(log) THEN <<>>
    ELSE (IF log[i].op = "exec" /\ \E k \in DOMAIN Actions(t) : Actions(t)[k] = log[i].a
          THEN <<log[i].a>> ELSE <<>>)
         \o ExecutedFrom(t, i + 1)
Executed(t) == ExecutedFrom(t, 1)

TransitionedTo == {log[i].a : i \in {j \in DOMAIN log : log[j].op = "trans"}}

\* C5: on a tick that transitions to a state, all actions of that state are
\* executed exactly once, in the order they were added; on a tick that makes
\* no transition, no action of the current state is executed.
C5_ActionsOnEntryOnly ==
    /\ \A t \in TransitionedTo : Executed(t) = Actions(t)
    /\ (ticks > 0 /\ TransitionedTo = {}) => Executed(currentState) = <<>>

\* C5 witness: Root stayed current over a tick in which its sub-steps ran
\* and none of its own actions did.
C5_Witness ==
    /\ TickState = "Root" /\ currentState = "Root" /\ TransitionedTo = {}
    /\ Subjects("Root", "sub", "exec") # <<>>
    /\ hops > 0

IsEval(e) == e.op \in {"evalT", "evalF", "evalE"}

\* C6: every condition evaluated during a tick gates a transition or a
\* sub-step of the state that was current when the tick began, or of the
\* super state, and is evaluated by that state's progress.
C6_OnlyLiveCandidatesPolled ==
    \A i \in DOMAIN log :
        IsEval(log[i]) =>
            /\ log[i].ctx \in {TickState, SuperState} \ {NoState}
            /\ log[i].ph \in {"sub", "scan"}
            /\ log[i].a \in Children(log[i].ctx)

\* C6 witness: a tick that began in A evaluated a condition while Root, which
\* is no candidate of A, has a condition too; the tick moved on to B.
C6_Witness ==
    /\ TickState = "A" /\ currentState = "B"
    /\ story.conds["Root"] # <<>>
    /\ \E i \in DOMAIN log : IsEval(log[i])

\* The condition objects gating state s.
CondsOf(s) == {[owner |-> s, kind |-> story.conds[s][i]] : i \in DOMAIN story.conds[s]}

\* Condition c is in the state enable(True) puts it in, the enable having
\* happened when the current state was entered.
EnabledOnEntry(c) ==
    CASE c.kind \in EventKinds -> c \in listeners
      [] c.kind = "wait"       -> start[c.owner] = entered
      [] OTHER                 -> TRUE

SuperRan ==
    \E i \in DOMAIN log : log[i].ctx = SuperState /\ log[i].ph \in {"super", "sub", "scan"}

\* C8: the super state is evaluated only on ticks where the progress of the
\* current state returned None; when the current state returns a target,
\* that target is entered and the super state is not looked at.
C8_SuperStateIsFallback ==
    /\ SuperRan => Returned(TickState) = {NoState}
    /\ \A t \in Returned(TickState) \ {NoState} :
           currentState = t /\ TransitionedTo = {t} /\ ~SuperRan

\* C8 witness: the super state's only transition, to A, has no condition
\* and is always satisfied; a tick that began in A with A's own transition
\* to B satisfied went to B.
C8_Witness ==
    /\ story.super /\ story.conds["A"] = <<>>
    /\ TickState = "A" /\ Returned("A") = {"B"} /\ currentState = "B"

TransIdx == {j \in DOMAIN log : log[j].op = "trans"}

\* C9: a tick makes at most one transition and, after it, only activates
\* the state entered (enables conditions, executes its actions): nothing of
\* the new state is tested before the next tick.  So the number of
\* transitions never exceeds the number of ticks, and a story whose states
\* are all unconditioned advances exactly one state per tick.
C9_OneTransitionPerTick ==
    /\ Cardinality(TransIdx) <= 1
    /\ \A j \in TransIdx : \A i \in DOMAIN log :
           i > j => log[i].op \in {"enable", "exec", "caught"}
    /\ hops <= ticks
    /\ (\A s \in {"Root", "A", "B"} : story.conds[s] = <<>>) => hops = ticks

\* C9 witness: with Root, A and B unconditioned, B (the third state of the
\* chain) is reached at the third tick.
C9_Witness ==
    /\ \A s \in {"Root", "A", "B"} : story.conds[s] = <<>>
    /\ currentState = "B" /\ ticks = 3 /\ hops = 3

\* C10, second half: a CondWait evaluated by the progress of the current
\* state is true only when more than its duration has passed since that
\* state became current.
WaitTrueOnlyAfterDuration ==
    \A i \in DOMAIN log :
        (log[i].op = "evalT" /\ log[i].b = "wait" /\ log[i].ctx = TickState)
            => now - since > Duration

\* C10: whenever a CondWait is evaluated its start time is recorded (the
\* evaluation does not meet start = None), and it evaluates true only when
\* more than its duration has passed since the predecessor of the state it
\* gates became current.
C10_WaitStartRecorded ==
    /\ \A i \in DOMAIN log : log[i].b = "wait" => log[i].op # "evalE"
    /\ WaitTrueOnlyAfterDuration

\* ============================================================ conditions
\* The condition classes on their own: one state "A" gated by one condition
\* of every class, driven by the calls a State makes on its conditions.
MaxFrame == 3
MaxEvals == 4

\* CondActionGE.FRAME_EPSILON, and the frame the CondActionGE objects are
\* built with, in hundredths of a frame.
FRAME_EPSILON == 1
GEFrame == 2

Truth(b) == IF b THEN "T" ELSE "F"

\* CondActionGE.evaluate without the memory of tap mode: true on every
\* evaluation at or above the frame.
ActionGEEvaluateNoMemory(tap, trig, af) ==
    [r |-> af + FRAME_EPSILON >= GEFrame, trig |-> trig]

\* CondActionGE.evaluate with the memory in both modes.
ActionGEEvaluateAlwaysTap(tap, trig, af) ==
    LET cfra == af + FRAME_EPSILON
    IN  IF trig /\ cfra < GEFrame THEN [r |-> FALSE, trig |-> FALSE]
        ELSE IF ~trig /\ cfra >= GEFrame THEN [r |-> TRUE, trig |-> TRUE]
        ELSE [r |-> FALSE, trig |-> trig]

\* CondActionGE.evaluate: the result, and self.triggered afterwards.
ActionGEEvaluate(tap, trig, af) ==
    LET cfra == af + FRAME_EPSILON
    IN  IF ~tap THEN [r |-> cfra >= GEFrame, trig |-> trig]
        ELSE IF trig /\ cfra < GEFrame THEN [r |-> FALSE, trig |-> FALSE]
        ELSE IF ~trig /\ cfra >= GEFrame THEN [r |-> TRUE, trig |-> TRUE]
        ELSE [r |-> FALSE, trig |-> trig]

\* The conditions of state "A": CondSensor, CondEvent, CondEventNe,
\* CNot(CondEventEq), CondWait, CondActionGE and CondActionGE(tap=True).
\* The CondEventEq inside the CNot is filed under "B", which is never
\* activated: CNot inherits Condition.enable, which does nothing.
BenchConds == <<"sensor", "event", "eventNe", "not", "wait", "ge", "geTap">>
BenchStory ==
    [conds |-> [s \in StateNames |->
                    CASE s = "A" -> BenchConds
                      [] s = "B" -> <<"eventEq">>
                      [] OTHER   -> <<>>],
     super |-> FALSE]
BenchCond(k) == [owner |-> "A", kind |-> k]

\* CNot.wrapped
Wrapped(c) == [owner |-> "B", kind |-> "eventEq"]

\* evaluate of any condition class: the result, and the CondActionGE objects
\* that are triggered afterwards.
EvaluateCond(c, sens, ge) ==
    CASE c.kind = "not" ->
            [r |-> Truth(Evaluate(Machine, Wrapped(c), sens) # "T"), ge |-> ge]
      [] c.kind \in {"ge", "geTap"} ->
            LET e == ActionGEEvaluate(c.kind = "geTap", c.kind \in ge, actFrame)
            IN  [r |-> Truth(e.r),
                 ge |-> IF e.trig THEN ge \cup {c.kind} ELSE ge \ {c.kind}]
      [] OTHER ->
            [r |-> Evaluate(Machine, c, sens), ge |-> ge]

\* The story machine at rest, with the story above.
StoryIdle ==
    /\ story = BenchStory
    /\ ChapterInit

InitCond ==
    /\ StoryIdle
    /\ PartsIdle

\* State.parent_activated on "A": its conditions are enabled or disabled.
CondActivate ==
    /\ \E activated \in BOOLEAN :
         \E m \in {ParentActivated(Machine, "A", activated)} :
             /\ listeners' = m.lis
             /\ triggered' = m.trig
             /\ start' = m.start
             /\ received' = IF activated THEN received ELSE {}
    /\ UNCHANGED <<story, currentState, super_active, now, log, failed, ticks,
                   hops, entered, since>>
    /\ UNCHANGED <<actFrame, geTriggered, tapHist, lastPair>>
    /\ UNCHANGED notCond

\* EventBus.notify with no delay.
CondReceive ==
    /\ \E evt \in Events :
         /\ triggered' = BusNotify(Machine, evt).trig
         /\ received' = IF BenchCond("eventNe") \in listeners
                         THEN received \cup {evt} ELSE received
    /\ UNCHANGED <<story, currentState, super_active, listeners, start, now,
                   log, failed, ticks, hops, entered, since>>
    /\ UNCHANGED <<actFrame, geTriggered, tapHist, lastPair>>
    /\ UNCHANGED notCond

\* The animation of the object plays on, or loops back.
CondSetFrame ==
    /\ \E f \in 0..MaxFrame : actFrame' = f
    /\ UNCHANGED vars
    /\ UNCHANGED <<geTriggered, tapHist, lastPair, received>>
    /\ UNCHANGED notCond

\* One condition is evaluated twice on end, nothing happening in between.
CondEvaluateTwice ==
    /\ \E k \in {BenchConds[i] : i \in DOMAIN BenchConds}, sens \in SUBSET {"A"} :
         LET e1 == EvaluateCond(BenchCond(k), sens, geTriggered)
             e2 == EvaluateCond(BenchCond(k), sens, e1.ge)
         IN  /\ lastPair' = <<k, e1.r, e2.r>>
             /\ geTriggered' = e2.ge
    /\ UNCHANGED vars
    /\ UNCHANGED <<actFrame, tapHist, received>>
    /\ UNCHANGED notCond

NextCond == CondActivate \/ CondReceive \/ CondSetFrame \/ CondEvaluateTwice
                \/ AdvanceClock

SpecCond == InitCond /\ [][NextCond]_<<vars, partVars>>

\* The tap-mode CondActionGE is evaluated once, as State.test does.
TapEvaluate ==
    /\ Len(tapHist) < MaxEvals
    /\ LET e == ActionGEEvaluate(TRUE, "geTap" \in geTriggered, actFrame)
       IN  /\ tapHist' = Append(tapHist, [cfra |-> actFrame + FRAME_EPSILON,
                                           r |-> e.r])
           /\ geTriggered' = IF e.trig THEN geTriggered \cup {"geTap"}
                              ELSE geTriggered \ {"geTap"}
    /\ UNCHANGED vars
    /\ UNCHANGED <<actFrame, lastPair, received>>
    /\ UNCHANGED notCond

NextTap == CondSetFrame \/ TapEvaluate

SpecTap == InitCond /\ [][NextTap]_<<vars, partVars>>

\* C11: in tap mode CondActionGE evaluates true at most once per upward
\* crossing of the frame: between any two evaluations that returned true
\* there is one at which the current frame was below the threshold, and that
\* one returned false.
C11_TapOncePerCrossing ==
    \A i, j \in DOMAIN tapHist :
        i < j /\ tapHist[i].r /\ tapHist[j].r =>
            \E k \in (i + 1)..(j - 1) :
                tapHist[k].cfra < GEFrame /\ ~tapHist[k].r

C11_Witness ==
    \E i, j \in DOMAIN tapHist : i < j /\ tapHist[i].r /\ tapHist[j].r

NeValue == EvaluateCond(BenchCond("eventNe"), {}, geTriggered).r = "T"
NotEqValue == EvaluateCond(BenchCond("not"), {}, geTriggered).r = "T"

\* C13: CondEventNe is true exactly when, since it was enabled, an event
\* with the configured message and another body has been received; before
\* any event has been received CNot(CondEventEq) is true and CondEventNe is
\* not.
C13_NeNeedsDifferingEvent ==
    /\ NeValue <=> \E e \in received :
                       e.message = CondMessage /\ e.body # CondBody
    /\ received = {} => NotEqValue /\ ~NeValue

C13_Witness ==
    /\ NeValue
    /\ [message |-> CondMessage, body |-> CondBody] \notin received

\* ============================================================= event bus
\* EventBus and SceneDispatch on their own.  An event is known by its
\* position in `sent`; sent[id] holds its message, the delay it was sent with
\* and the number of process_queue calls made before it was sent.
MaxSent == 2
MaxDelay == 2
MaxCalls == 2

\* hasattr(listener, 'scene') and listener.scene
HasScene(l) == l # "a"
SceneOf(l) == IF l = "h" THEN "hud" ELSE NoScene

\* The order in which the copy of the listener set is iterated.
ListenerOrder == <<"a", "h">>

\* Listener "a" answers the message "go" by sending "other" with a delay, as
\* the comment in process_queue allows a callee to do.
Relay == "a"
RelayMessage == "go"
RelayAnswer == "other"
RelayDelay == 1

\* The bus, the dispatchers and the history, threaded through the calls.
Bus ==
    [lis |-> busListeners, valid |-> busValid, scene |-> curScene,
     queue |-> eventQueue, cache |-> eventCache, pend |-> dispPending,
     sent |-> sent, calls |-> calls, deliv |-> deliveries,
     deferred |-> deferred, ran |-> ran, trace |-> <<>>]

Traced(b, op, l, id) ==
    [b EXCEPT !.trace = Append(@, [op |-> op, l |-> l, id |-> id])]

\* EventBus._enqueue: append, then a stable sort by delay.
Enqueue(b, id, delay) ==
    LET k == Cardinality({i \in DOMAIN b.queue : b.queue[i].delay <= delay})
    IN  [b EXCEPT !.queue = SubSeq(@, 1, k) \o <<[id |-> id, delay |-> delay]>>
                              \o SubSeq(@, k + 1, Len(@))]

RECURSIVE EventSend(_, _, _)
RECURSIVE OnEvent(_, _, _)
RECURSIVE DeliverFrom(_, _, _, _)

\* SceneDispatch.call_in_scene that calls at once whatever the scene.
CallInSceneAlwaysNow(b, scene, l, id) ==
    OnEvent(b, l, id)

\* SceneDispatch.call_in_scene(scene, listener.on_event, event)
CallInScene(b, scene, l, id) ==
    IF scene = NoScene \/ scene = b.scene THEN OnEvent(b, l, id)
    ELSE [Traced(b, "defer", l, id) EXCEPT
              !.pend[scene] = Append(@, [l |-> l, id |-> id]),
              !.deferred = @ \cup {[l |-> l, id |-> id]}]

\* The loop of EventBus._notify over self.listeners.copy(): SafeSet.__iter__
\* skips the invalid listeners.
DeliverFrom(b, id, copy, i) ==
    IF i > Len(ListenerOrder) THEN b
    ELSE LET l == ListenerOrder[i]
             b1 == IF l \notin copy \/ l \notin b.valid THEN b
                   ELSE IF HasScene(l) THEN CallInScene(b, SceneOf(l), l, id)
                   ELSE OnEvent(b, l, id)
         IN  DeliverFrom(b1, id, copy, i + 1)

\* EventBus._notify that keeps the first event cached for a message.
NotifyNowKeepFirst(b, id) ==
    LET b0 == [Traced(b, "notify", "", id) EXCEPT
                   !.deliv = Append(@, [id |-> id, call |-> b.calls])]
        b1 == DeliverFrom(b0, id, b.lis, 1)
        msg == b.sent[id].message
    IN  IF b1.cache[msg] = None THEN [b1 EXCEPT !.cache[msg] = id] ELSE b1

\* EventBus._notify
NotifyNow(b, id) ==
    LET b0 == [Traced(b, "notify", "", id) EXCEPT
                   !.deliv = Append(@, [id |-> id, call |-> b.calls])]
        b1 == DeliverFrom(b0, id, b.lis, 1)
    IN  [b1 EXCEPT !.cache[b.sent[id].message] = id]

\* EventBus.notify
NotifyBus(b, id, delay) ==
    IF delay <= 0 THEN NotifyNow(b, id) ELSE Enqueue(b, id, delay)

\* Event(message).send(delay)
EventSend(b, message, delay) ==
    LET b1 == [b EXCEPT !.sent = Append(@, [message |-> message,
                                            delay |-> delay, at |-> b.calls])]
    IN  NotifyBus(b1, Len(b1.sent), delay)

\* listener.on_event(event)
OnEvent(b, l, id) ==
    LET b1 == Traced(b, "call", l, id)
    IN  IF l = Relay /\ b.sent[id].message = RelayMessage
        THEN EventSend(b1, RelayAnswer, RelayDelay)
        ELSE b1

RECURSIVE NotifyAll(_, _, _)
\* The last loop of EventBus.process_queue
NotifyAll(b, pending, i) ==
    IF i > Len(pending) THEN b
    ELSE NotifyAll(NotifyBus(b, pending[i].id, 0), pending, i + 1)

Decremented(queue) ==
    [i \in DOMAIN queue |-> [id |-> queue[i].id, delay |-> queue[i].delay - 1]]
IsDue(item) == item.delay <= 0
IsLate(item) == item.delay < 0
NotDue(item) == ~IsDue(item)
NotLate(item) == ~IsLate(item)

\* EventBus.process_queue sending an event when its counter is below zero.
ProcessQueueLate(b) ==
    IF Len(b.queue) = 0 THEN b
    ELSE LET pending == SelectSeq(Decremented(b.queue), IsLate)
             newQueue == SelectSeq(Decremented(b.queue), NotLate)
         IN  NotifyAll([b EXCEPT !.queue = newQueue], pending, 1)

\* EventBus.process_queue
ProcessQueue(b) ==
    IF Len(b.queue) = 0 THEN b
    ELSE LET pending == SelectSeq(Decremented(b.queue), IsDue)
             newQueue == SelectSeq(Decremented(b.queue), NotDue)
         IN  NotifyAll([b EXCEPT !.queue = newQueue], pending, 1)

RECURSIVE RunFromAbort(_, _, _, _)
\* The loop of SceneDispatch.process with the try around the loop.
RunFromAbort(b, list, i, raises) ==
    IF i > Len(list) THEN b
    ELSE LET c == list[i]
             b1 == [Traced(b, "run", c.l, c.id) EXCEPT !.ran = @ \cup {c}]
         IN  IF i \in raises THEN Traced(b1, "caught", c.l, c.id)
             ELSE RunFromAbort(OnEvent(b1, c.l, c.id), list, i + 1, raises)

RECURSIVE RunFrom(_, _, _, _)
\* The loop of SceneDispatch.process: each call in a try of its own.
RunFrom(b, list, i, raises) ==
    IF i > Len(list) THEN b
    ELSE LET c == list[i]
             b1 == [Traced(b, "run", c.l, c.id) EXCEPT !.ran = @ \cup {c}]
             b2 == IF i \in raises THEN Traced(b1, "caught", c.l, c.id)
                   ELSE OnEvent(b1, c.l, c.id)
         IN  RunFrom(b2, list, i + 1, raises)

\* SceneDispatch.process of the dispatcher of the current scene
DispatchProcess(b, raises) ==
    [RunFrom(b, b.pend[b.scene], 1, raises) EXCEPT !.pend[b.scene] = <<>>]

\* EventBus.replay_last
ReplayLast(b, target, message) ==
    IF b.cache[message] # None THEN OnEvent(b, target, b.cache[message])
    ELSE b

\* EventBus.read_last: the event returned, or KeyError raised.
ReadLast(message) ==
    IF eventCache[message] # None
    THEN [raised |-> FALSE, id |-> eventCache[message]]
    ELSE [raised |-> TRUE, id |-> None]

\* ---------------------------------------------------------- bus actions
NoLog ==
    [op |-> "", id |-> None, l |-> "", msg |-> "", before |-> <<>>,
     trace |-> <<>>]

\* The bus b becomes the state.
BusBecomes(b) ==
    /\ eventQueue' = b.queue
    /\ eventCache' = b.cache
    /\ dispPending' = b.pend
    /\ sent' = b.sent
    /\ calls' = b.calls
    /\ deliveries' = b.deliv
    /\ deferred' = b.deferred
    /\ ran' = b.ran
    /\ UNCHANGED <<busListeners, busValid, curScene>>
    /\ UNCHANGED <<vars, notBus>>

\* EventBus.add_listener: SafeSet.add turns an invalid object away.
BusAddListener ==
    /\ \E l \in Listeners :
         busListeners' = IF l \in busValid THEN busListeners \cup {l}
                         ELSE busListeners
    /\ busLog' = NoLog
    /\ UNCHANGED <<busValid, curScene, eventQueue, eventCache, dispPending,
                   sent, calls, deliveries, deferred, ran>>
    /\ UNCHANGED <<vars, notBus>>

\* EventBus.remove_listener
BusRemoveListener ==
    /\ \E l \in Listeners : busListeners' = busListeners \ {l}
    /\ busLog' = NoLog
    /\ UNCHANGED <<busValid, curScene, eventQueue, eventCache, dispPending,
                   sent, calls, deliveries, deferred, ran>>
    /\ UNCHANGED <<vars, notBus>>

\* The engine frees a listening game object: it is invalid from now on.
BusInvalidate ==
    /\ \E l \in busValid : busValid' = busValid \ {l}
    /\ busLog' = NoLog
    /\ UNCHANGED <<busListeners, curScene, eventQueue, eventCache, dispPending,
                   sent, calls, deliveries, deferred, ran>>
    /\ UNCHANGED <<vars, notBus>>

\* The engine goes on to run the logic of the other scene.
SwitchScene ==
    /\ \E sc \in Scenes \ {curScene} : curScene' = sc
    /\ busLog' = NoLog
    /\ UNCHANGED <<busListeners, busValid, eventQueue, eventCache, dispPending,
                   sent, calls, deliveries, deferred, ran>>
    /\ UNCHANGED <<vars, notBus>>

\* Event(message).send(delay), with the delay one of delays.
BusSend(delays) ==
    \E message \in Messages, delay \in delays :
        \E b \in {EventSend(Bus, message, delay)} :
            /\ Len(b.sent) <= MaxSent
            /\ busLog' = [NoLog EXCEPT !.op = "notify", !.id = Len(sent) + 1,
                                       !.trace = b.trace]
            /\ BusBecomes(b)

BusNotifyNow == BusSend({0})
BusNotifyAny == BusSend(0..MaxDelay)

\* EventBus.process_queue, called once in a frame.
BusProcessQueue ==
    /\ calls < MaxCalls
    /\ \E b \in {ProcessQueue([Bus EXCEPT !.calls = @ + 1])} :
         /\ Len(b.sent) <= MaxSent
         /\ busLog' = [NoLog EXCEPT !.op = "process_queue", !.trace = b.trace]
         /\ BusBecomes(b)

\* SceneDispatch.process in the current scene; the pending calls at the
\* positions in raises throw.
BusDispatchProcess ==
    \E raises \in SUBSET DOMAIN dispPending[curScene] :
        \E b \in {DispatchProcess(Bus, raises)} :
            /\ busLog' = [NoLog EXCEPT !.op = "process", !.trace = b.trace,
                                       !.before = dispPending[curScene]]
            /\ BusBecomes(b)

\* EventBus.replay_last(target, message)
BusReplayLast ==
    \E target \in Listeners, message \in Messages :
        \E b \in {ReplayLast(Bus, target, message)} :
            /\ Len(b.sent) <= MaxSent
            /\ busLog' = [NoLog EXCEPT !.op = "replay", !.l = target,
                                       !.msg = message, !.trace = b.trace]
            /\ BusBecomes(b)

InitBus ==
    /\ StoryIdle
    /\ PartsIdle

\* The bus with its queue: listeners come, events are sent with and without
\* delay, frames pass.
NextBus == BusAddListener \/ BusNotifyAny \/ BusProcessQueue

SpecBus == InitBus /\ [][NextBus]_<<vars, partVars>>

\* The cache of the bus, whoever listens: events are sent with and without
\* delay, frames pass, the last event is replayed to an object.
NextLast == BusNotifyAny \/ BusProcessQueue \/ BusReplayLast

SpecLast == InitBus /\ [][NextLast]_<<vars, partVars>>

\* Delivery across scenes: listeners come and go, the current scene changes,
\* events are sent without delay.
NextDispatch == BusAddListener \/ BusRemoveListener \/ BusInvalidate
                    \/ SwitchScene \/ BusNotifyNow \/ BusDispatchProcess

SpecDispatch == InitBus /\ [][NextDispatch]_<<vars, partVars>>

\* ------------------------------------------------------ claims on the bus
Greatest(S) == CHOOSE x \in S : \A y \in S : y <= x

\* The _notify calls made for event id, as positions in deliveries.
DeliveredAt(id) == {i \in DOMAIN deliveries : deliveries[i].id = id}

Targets == busListeners \cap busValid
Near(l) == ~HasScene(l) \/ SceneOf(l) = curScene
Count(op, l, id) ==
    Cardinality({i \in DOMAIN busLog.trace :
                    busLog.trace[i] = [op |-> op, l |-> l, id |-> id]})

\* C15: when notify with no delay returns, on_event has been called exactly
\* once on every valid registered listener that has no scene or is in the
\* current scene and on no other listener, and for every valid registered
\* listener of another scene the call is the last entry of the pending list
\* of that scene's dispatcher.
C15_ImmediateDelivery ==
    busLog.op = "notify" /\ sent[busLog.id].delay <= 0 =>
        \A l \in Listeners :
            /\ Count("call", l, busLog.id)
                   = IF l \in Targets /\ Near(l) THEN 1 ELSE 0
            /\ Count("defer", l, busLog.id)
                   = IF l \in Targets /\ ~Near(l) THEN 1 ELSE 0
            /\ l \in Targets /\ ~Near(l) =>
                   LET q == dispPending[SceneOf(l)]
                   IN  q # <<>> /\ q[Len(q)] = [l |-> l, id |-> busLog.id]

C15_Witness ==
    /\ busLog.op = "notify"
    /\ Targets = Listeners
    /\ curScene = "main"

\* The events of the last replay_last or read_last.
LastSent(message) ==
    LET ids == {id \in DOMAIN sent : sent[id].message = message}
    IN  IF ids = {} THEN None ELSE Greatest(ids)
LastDelivered(message) ==
    LET at == {i \in DOMAIN deliveries :
                  sent[deliveries[i].id].message = message}
    IN  IF at = {} THEN None ELSE deliveries[Greatest(at)].id
Expected(id) ==
    IF id = None THEN [raised |-> TRUE, id |-> None]
    ELSE [raised |-> FALSE, id |-> id]
IsCall(e) == e.op = "call"
ReplayedTo(id) ==
    IF id = None THEN <<>>
    ELSE <<[op |-> "call", l |-> busLog.l, id |-> id]>>

Waiting == UNION {{dispPending[sc][i] : i \in DOMAIN dispPending[sc]} : sc \in Scenes}

\* C17: a call deferred by call_in_scene is not run by the notification that
\* deferred it; it waits on the dispatcher of its scene until that
\* dispatcher's process runs it; process runs every waiting call once, in the
\* order they were queued, whether or not an earlier one threw, and leaves
\* the list empty.
C17_DeferredRunOnceInOrder ==
    /\ busLog.op = "notify" =>
           \A l \in Listeners :
               Count("defer", l, busLog.id) > 0 => Count("call", l, busLog.id) = 0
    /\ busLog.op = "process" =>
           /\ Len(busLog.trace) = 2 * Len(busLog.before)
           /\ \A k \in DOMAIN busLog.before :
                  /\ busLog.trace[2 * k - 1]
                         = [op |-> "run", l |-> busLog.before[k].l,
                            id |-> busLog.before[k].id]
                  /\ busLog.trace[2 * k].op \in {"call", "caught"}
                  /\ busLog.trace[2 * k].l = busLog.before[k].l
                  /\ busLog.trace[2 * k].id = busLog.before[k].id
           /\ dispPending[curScene] = <<>>
    /\ deferred = ran \cup Waiting
    /\ ran \cap Waiting = {}
    /\ \A sc \in Scenes : \A i, j \in DOMAIN dispPending[sc] :
           dispPending[sc][i] = dispPending[sc][j] => i = j

C17_Witness ==
    /\ busLog.op = "process"
    /\ Len(busLog.before) >= 2
    /\ busLog.trace[2].op = "caught"
    /\ busLog.trace[4].op = "call"

\* =============================================================== SafeSet
\* A SafeSet as the record [bag, dead] of its two sets.
SafeSet == [bag |-> bag, dead |-> deadBag]

\* SafeSet._flag_removal taking the object out of bag at once.
FlagRemovalAtOnce(ss, item) ==
    [ss EXCEPT !.bag = @ \ {item}]

\* SafeSet._flag_removal
FlagRemoval(ss, item) ==
    [ss EXCEPT !.dead = @ \cup {item}]

RECURSIVE FlagEach(_, _)
\* _flag_removal on each of the invalid objects a loop over bag meets.
FlagEach(ss, found) ==
    IF found = {} THEN ss
    ELSE LET item == CHOOSE x \in found : TRUE
         IN  FlagEach(FlagRemoval(ss, item), found \ {item})

\* SafeSet._expunge
Expunge(ss) == [bag |-> ss.bag \ ss.dead, dead |-> {}]

\* SafeSet.add
SetAdd(ss, item) ==
    IF item \notin objValid THEN Expunge(ss)
    ELSE [Expunge(ss) EXCEPT !.bag = @ \cup {item}]

\* SafeSet.discard
SetDiscard(ss, item) == Expunge([ss EXCEPT !.bag = @ \ {item}])

\* SafeSet.remove: set.remove raises KeyError for an object not in bag.
SetRemove(ss, item) ==
    IF item \notin ss.bag THEN ss
    ELSE Expunge([ss EXCEPT !.bag = @ \ {item}])

\* SafeSet.update
SetUpdate(ss, iterable) == Expunge([ss EXCEPT !.bag = @ \cup iterable])

\* SafeSet.__contains__: the result, and the set afterwards.
SetContains(ss, item) ==
    IF item \notin objValid
    THEN [r |-> FALSE,
          ss |-> IF item \in ss.bag THEN FlagRemoval(ss, item) ELSE ss]
    ELSE [r |-> item \in ss.bag, ss |-> ss]

\* SafeSet.__len__: the result, and the set afterwards.
SetLen(ss) ==
    [r |-> Cardinality(ss.bag \cap objValid),
     ss |-> FlagEach(ss, ss.bag \ objValid)]

\* ----------------------------------------------------------- set actions
NoSetLog == [op |-> "", item |-> None, r |-> None]

\* The set ss becomes the state after a call that changes its contents: by
\* the docstring of SafeSet no iterator is open then.
SetBecomes(ss) ==
    /\ iterState # "open"
    /\ bag' = ss.bag
    /\ deadBag' = ss.dead
    /\ iterState' = "none"
    /\ iterRest' = {}
    /\ iterSize' = 0
    /\ yielded' = {}
    /\ lastYield' = None
    /\ setLog' = NoSetLog
    /\ UNCHANGED <<objValid, broken>>
    /\ UNCHANGED <<vars, notSet>>

SetAddCall ==
    \E item \in Items :
        /\ SetBecomes(SetAdd(SafeSet, item))
        /\ members' = IF item \in objValid THEN members \cup {item} ELSE members

SetDiscardCall ==
    \E item \in Items :
        /\ SetBecomes(SetDiscard(SafeSet, item))
        /\ members' = members \ {item}

SetRemoveCall ==
    \E item \in Items :
        /\ SetBecomes(SetRemove(SafeSet, item))
        /\ members' = members \ {item}

SetUpdateCall ==
    \E iterable \in SUBSET Items :
        /\ SetBecomes(SetUpdate(SafeSet, iterable))
        /\ members' = members \cup iterable

\* item in safeset
SetContainsCall ==
    /\ \E item \in Items :
         \E c \in {SetContains(SafeSet, item)} :
             /\ setLog' = [op |-> "contains", item |-> item, r |-> c.r]
             /\ bag' = c.ss.bag
             /\ deadBag' = c.ss.dead
    /\ UNCHANGED <<objValid, members, iterState, iterRest, iterSize, yielded,
                   lastYield, broken>>
    /\ UNCHANGED <<vars, notSet>>

\* len(safeset)
SetLenCall ==
    /\ \E c \in {SetLen(SafeSet)} :
         /\ setLog' = [op |-> "len", item |-> None, r |-> c.r]
         /\ bag' = c.ss.bag
         /\ deadBag' = c.ss.dead
    /\ UNCHANGED <<objValid, members, iterState, iterRest, iterSize, yielded,
                   lastYield, broken>>
    /\ UNCHANGED <<vars, notSet>>

\* iter(safeset): the generator of SafeSet.__iter__ starts on bag.
SetIterOpen ==
    /\ iterState # "open"
    /\ iterState' = "open"
    /\ iterRest' = bag
    /\ iterSize' = Cardinality(bag)
    /\ yielded' = {}
    /\ lastYield' = None
    /\ setLog' = NoSetLog
    /\ UNCHANGED <<objValid, bag, deadBag, members, broken>>
    /\ UNCHANGED <<vars, notSet>>

\* next() on the generator: the iterator of bag raises RuntimeError if bag
\* has changed size; else the loop flags the invalid objects it meets, in
\* whatever order bag is in, until it yields a valid one or runs out.
SetIterNext ==
    /\ iterState = "open"
    /\ setLog' = NoSetLog
    /\ IF Cardinality(bag) # iterSize
       THEN /\ broken' = TRUE
            /\ iterState' = "done"
            /\ UNCHANGED <<bag, deadBag, iterRest, yielded, lastYield>>
       ELSE /\ UNCHANGED broken
            /\ \/ \E item \in iterRest \cap objValid,
                     skipped \in SUBSET (iterRest \ objValid) :
                      \E ss \in {FlagEach(SafeSet, skipped)} :
                          /\ bag' = ss.bag
                          /\ deadBag' = ss.dead
                          /\ iterRest' = iterRest \ ({item} \cup skipped)
                          /\ yielded' = yielded \cup {item}
                          /\ lastYield' = item
                          /\ UNCHANGED iterState
               \/ /\ iterRest \cap objValid = {}
                  /\ \E ss \in {FlagEach(SafeSet, iterRest)} :
                         /\ bag' = ss.bag
                         /\ deadBag' = ss.dead
                  /\ iterRest' = {}
                  /\ iterState' = "done"
                  /\ lastYield' = None
                  /\ UNCHANGED yielded
    /\ UNCHANGED <<objValid, members, iterSize>>
    /\ UNCHANGED <<vars, notSet>>

\* The engine frees a game object, whatever the set is being used for.
SetInvalidate ==
    /\ \E item \in objValid : objValid' = objValid \ {item}
    /\ setLog' = NoSetLog
    /\ lastYield' = None
    /\ UNCHANGED <<bag, deadBag, members, iterState, iterRest, iterSize,
                   yielded, broken>>
    /\ UNCHANGED <<vars, notSet>>

InitSet ==
    /\ StoryIdle
    /\ PartsIdle

NextSet == SetAddCall \/ SetDiscardCall \/ SetRemoveCall \/ SetUpdateCall
               \/ SetContainsCall \/ SetLenCall \/ SetIterOpen \/ SetIterNext
               \/ SetInvalidate

SpecSet == InitSet /\ [][NextSet]_<<vars, partVars>>

\* C18: a SafeSet only exposes living objects: an iterator never yields an
\* invalid object and, once through, has yielded every object of the set that
\* is still valid and nothing from outside the set; len is the number of
\* valid objects in the set; a membership test is true of the valid objects
\* in the set and of nothing else; and no iterator raises because an object
\* became invalid while it was open.
C18_OnlyLivingExposed ==
    /\ lastYield # None => lastYield \in objValid
    /\ iterState = "done" /\ ~broken =>
           /\ members \cap objValid \subseteq yielded
           /\ yielded \subseteq members
    /\ setLog.op = "len" => setLog.r = Cardinality(members \cap objValid)
    /\ setLog.op = "contains" =>
           (setLog.r <=> setLog.item \in members \cap objValid)
    /\ ~broken

C18_Witness ==
    /\ iterState = "done"
    /\ yielded # {}
    /\ members \ objValid # {}
    /\ yielded \ objValid # {}

\* ===================================================== SafePriorityStack
\* A SafePriorityStack as the record [list, prio] of its list and its
\* dictionary; prio[item] = None stands for a key that is not there.
MaxPriority == 1
Priorities == 0..MaxPriority

Stack == [list |-> stList, prio |-> stPrio]

Without(seq, item) ==
    LET Keep(x) == x # item IN SelectSeq(seq, Keep)

\* What SafeList.__iter__ yields: the valid items, in list order.
ValidItems(list) ==
    LET IsValid(x) == x \in stValid IN SelectSeq(list, IsValid)

\* SafeList._expunge, with SafePriorityStack._on_automatic_removal
StExpunge(st) ==
    [list |-> ValidItems(st.list),
     prio |-> [item \in Items |->
                  IF \E i \in DOMAIN st.list :
                         st.list[i] = item /\ item \notin stValid
                  THEN None ELSE st.prio[item]]]

\* SafeList.remove: ValueError for an expired item or one not in the list.
ListRemove(st, item) ==
    LET e == StExpunge(st)
    IN  IF item \notin stValid \/ \A i \in DOMAIN e.list : e.list[i] # item
        THEN [st |-> e, raised |-> TRUE]
        ELSE [st |-> [e EXCEPT !.list = Without(@, item)], raised |-> FALSE]

\* SafePriorityStack.discard
StDiscard(st, item) ==
    LET r == ListRemove(st, item)
    IN  IF r.raised THEN r.st ELSE [r.st EXCEPT !.prio[item] = None]

\* SafeList.insert that leaves the expired items in the list.
ListInsertUnexpunged(st, index, item) ==
    IF item \notin stValid THEN st
    ELSE [st EXCEPT !.list = SubSeq(@, 1, index) \o <<item>>
                                 \o SubSeq(@, index + 1, Len(@))]

\* SafeList.insert
ListInsert(st, index, item) ==
    LET e == StExpunge(st)
    IN  IF item \notin stValid THEN e
        ELSE [e EXCEPT !.list = SubSeq(@, 1, index) \o <<item>>
                                    \o SubSeq(@, index + 1, Len(@))]

\* The loop of push: the number of items met before one of priority <= the
\* new priority.
RECURSIVE InsertionIndex(_, _, _, _)
InsertionIndex(st, others, priority, idx) ==
    IF idx >= Len(others) THEN idx
    ELSE IF st.prio[others[idx + 1]] <= priority THEN idx
    ELSE InsertionIndex(st, others, priority, idx + 1)

\* SafePriorityStack.push
StPush(st, item, priority) ==
    LET st1 == IF st.prio[item] # None THEN StDiscard(st, item) ELSE st
        idx == InsertionIndex(st1, ValidItems(st1.list), priority, 0)
        st2 == ListInsert(st1, idx, item)
    IN  [st2 EXCEPT !.prio[item] = priority]

\* SafePriorityStack.pop: IndexError on an empty stack.
StPop(st) ==
    LET e == StExpunge(st)
    IN  IF e.list = <<>> THEN e
        ELSE [list |-> Tail(e.list), prio |-> [e.prio EXCEPT ![Head(e.list)] = None]]

\* SafePriorityStack.top, SafeList.__getitem__(0): None for IndexError.
StTop(st) ==
    IF ValidItems(st.list) = <<>> THEN None ELSE ValidItems(st.list)[1]

\* -------------------------------------------------------- stack actions
StackBecomes(st) ==
    /\ stList' = st.list
    /\ stPrio' = st.prio
    /\ UNCHANGED stValid
    /\ UNCHANGED <<vars, notStack>>

StPushCall ==
    \E item \in Items, priority \in Priorities :
        /\ StackBecomes(StPush(Stack, item, priority))
        /\ recency' = IF item \in stValid
                      THEN LET rest == Without(recency, item)
                               Lower(x) == given[x] <= priority
                               Higher(x) == given[x] > priority
                           IN  SelectSeq(rest, Lower) \o <<item>>
                                   \o SelectSeq(rest, Higher)
                      ELSE Without(recency, item)
        /\ given' = [given EXCEPT ![item] = IF item \in stValid THEN priority
                                            ELSE None]

StDiscardCall ==
    \E item \in Items :
        /\ StackBecomes(StDiscard(Stack, item))
        /\ recency' = Without(recency, item)
        /\ given' = [given EXCEPT ![item] = None]

\* The valid objects on the stack, and the one that comes before all others:
\* of higher priority or, at the same priority, pushed later.
OnStack == {recency[i] : i \in DOMAIN recency} \cap stValid
Position(item) == CHOOSE i \in DOMAIN recency : recency[i] = item
Before(x, y) ==
    \/ given[x] > given[y]
    \/ given[x] = given[y] /\ Position(x) > Position(y)
First == CHOOSE x \in OnStack : \A y \in OnStack \ {x} : Before(x, y)

StPopCall ==
    /\ StackBecomes(StPop(Stack))
    /\ recency' = IF OnStack = {} THEN recency ELSE Without(recency, First)
    /\ given' = IF OnStack = {} THEN given ELSE [given EXCEPT ![First] = None]

\* The engine frees a stacked game object.
StInvalidate ==
    /\ \E item \in stValid : stValid' = stValid \ {item}
    /\ UNCHANGED <<stList, stPrio, recency, given>>
    /\ UNCHANGED <<vars, notStack>>

InitStack ==
    /\ StoryIdle
    /\ PartsIdle

NextStack == StPushCall \/ StDiscardCall \/ StPopCall \/ StInvalidate

SpecStack == InitStack /\ [][NextStack]_<<vars, partVars>>

\* C19: the valid items of the list are the valid objects pushed and not
\* discarded or popped since, each once, in the order of non-increasing
\* priority and, at equal priority, the one pushed later nearer the top;
\* top(), which changes nothing, returns the first of them, and raises
\* IndexError when there is none.
C19_PriorityThenRecency ==
    LET V == ValidItems(stList)
    IN  /\ {V[i] : i \in DOMAIN V} = OnStack
        /\ \A i, j \in DOMAIN V : i < j => Before(V[i], V[j])
        /\ StTop(Stack) = IF OnStack = {} THEN None ELSE First

C19_Witness ==
    /\ StTop(Stack) # None
    /\ \E i \in DOMAIN stList : stList[i] \notin stValid
    /\ \E x, y \in OnStack : x # y /\ given[x] = given[y]

\* =============================================================== Jukebox
\* The Jukebox as the record of its stack, its fields, and the state of the
\* samples of its tracks; played and stopped collect the tracks that play()
\* and stop() were called on. A name of the cache stands for its track: an
\* entry leaves the cache only when the owner of its track is dead, and the
\* owners outlive the music here.
Tracks == Items

Jukebox ==
    [stack |-> Stack, current |-> currentTrack, cache |-> trackCache,
     playing |-> playing, fading |-> fading, played |-> {}, stopped |-> {}]

\* Track.play: the Fader is replaced by one that fades in, and Sample.play,
\* which the device accepts.
TrackPlay(j, track) ==
    [j EXCEPT !.fading = @ \ {track},
              !.playing = @ \cup {track},
              !.played = @ \cup {track}]

\* Track.stop: the Fader is replaced by one that fades out; the sample goes
\* on until its volume reaches zero.
TrackStop(j, track) ==
    [j EXCEPT !.fading = @ \cup {track},
              !.stopped = @ \cup {track}]

\* Jukebox.update
JukeboxUpdate(j) ==
    LET Dead(name) == name \notin stValid /\ name \notin j.playing
        p == [j EXCEPT !.cache = {name \in @ : ~Dead(name)}]
        track == StTop(p.stack)
    IN  IF track = p.current
        THEN IF track # None /\ track \notin p.playing
             THEN [p EXCEPT !.stack = StDiscard(@, track)]
             ELSE p
        ELSE LET j1 == IF p.current # None THEN TrackStop(p, p.current) ELSE p
                 j2 == IF track # None THEN TrackPlay(j1, track) ELSE j1
             IN  [j2 EXCEPT !.current = track]

\* Jukebox.play_track
PlayTrack(j, name, track, priority) ==
    JukeboxUpdate([j EXCEPT !.stack = StPush(@, track, priority),
                            !.cache = @ \cup {name}])

\* Jukebox.play_files: the track of the name, from the cache or new.
PlayFiles(j, name, priority) == PlayTrack(j, name, name, priority)

\* Jukebox.stop without its call of update.
JukeboxStopOnly(j, name) ==
    IF name \notin j.cache THEN j
    ELSE [j EXCEPT !.stack = StDiscard(@, name)]

\* Jukebox.stop
JukeboxStop(j, name) ==
    IF name \notin j.cache THEN j
    ELSE JukeboxUpdate([j EXCEPT !.stack = StDiscard(@, name)])

\* ------------------------------------------------------ jukebox actions
JukeboxBecomes(j) ==
    /\ stList' = j.stack.list
    /\ stPrio' = j.stack.prio
    /\ currentTrack' = j.current
    /\ trackCache' = j.cache
    /\ playing' = j.playing
    /\ fading' = j.fading
    /\ UNCHANGED <<vars, notJuke>>

\* The valid tracks on the stack.
Stacked(st) == {ValidItems(st.list)[i] : i \in DOMAIN ValidItems(st.list)}

\* ActMusicPlay.execute, with or without a log of the call.
JukeboxPlay(logged) ==
    \E name \in Tracks, priority \in Priorities :
        \E j \in {PlayFiles(Jukebox, name, priority)} :
            /\ JukeboxBecomes(j)
            /\ jbLog' = IF ~logged THEN NoPlay
                        ELSE [op |-> "play", track |-> name,
                              priority |-> priority,
                              higher |-> \E o \in Stacked(Stack) \ {name} :
                                             stPrio[o] > priority,
                              current |-> currentTrack,
                              wasPlaying |-> currentTrack \in playing,
                              wasStacked |-> currentTrack \in Stacked(Stack),
                              rest |-> {},
                              played |-> j.played, stopped |-> j.stopped]

JukeboxPlayFiles == JukeboxPlay(TRUE)

JukeboxPlayUnlogged == JukeboxPlay(FALSE)

\* ActMusicStop.execute; the log is of the stop calls for the track that is
\* current and playing.
JukeboxStopCall ==
    \E name \in Tracks :
        \E j \in {JukeboxStop(Jukebox, name)} :
            /\ JukeboxBecomes(j)
            /\ jbLog' = IF name = currentTrack /\ name \in playing
                        THEN [op |-> "stop", track |-> name,
                              priority |-> None, higher |-> FALSE,
                              current |-> currentTrack, wasPlaying |-> TRUE,
                              wasStacked |-> currentTrack \in Stacked(Stack),
                              rest |-> Stacked(Stack) \ {name},
                              played |-> j.played, stopped |-> j.stopped]
                        ELSE NoPlay

\* A sample comes to the end of its source, or the device drops it.
SampleEnds ==
    \E track \in playing :
        /\ playing' = playing \ {track}
        /\ jbLog' = NoPlay
        /\ UNCHANGED <<stList, stPrio, currentTrack, trackCache, fading>>
        /\ UNCHANGED <<vars, notJuke>>

\* sound.update, once per tick: the Faders of the playing samples advance,
\* those that reach zero stop their sample and remove themselves; then
\* Jukebox.update.
SoundUpdate ==
    \E done \in SUBSET (fading \cap playing) :
        /\ JukeboxBecomes(JukeboxUpdate([Jukebox EXCEPT
                                            !.playing = @ \ done,
                                            !.fading = @ \ done]))
        /\ jbLog' = NoPlay

InitJukebox ==
    /\ StoryIdle
    /\ PartsIdle

NextJukebox == JukeboxPlayFiles \/ JukeboxStopCall \/ SampleEnds \/ SoundUpdate

SpecJukebox == InitJukebox /\ [][NextJukebox]_<<vars, partVars>>

NextStop == JukeboxPlayUnlogged \/ JukeboxStopCall \/ SampleEnds \/ SoundUpdate

SpecStop == InitJukebox /\ [][NextStop]_<<vars, partVars>>

\* C20: after play_files of a track with a priority that no other track on
\* the stack exceeds, the track is the current one and playing, and the track
\* that was current before has been faded out and, if it was on the stack, is
\* still there; after play_files with a priority that some other stacked
\* track exceeds, the track is on the stack, has not been started, and the
\* track that was current and playing is still current and playing.
C20_PriorityRule ==
    jbLog.op = "play" =>
        IF ~jbLog.higher
        THEN /\ currentTrack = jbLog.track
             /\ jbLog.track \in playing
             /\ jbLog.current \notin {None, jbLog.track} =>
                    /\ jbLog.current \in jbLog.stopped
                    /\ jbLog.current \in fading
                    /\ jbLog.wasStacked => jbLog.current \in Stacked(Stack)
        ELSE /\ jbLog.track \in Stacked(Stack)
             /\ jbLog.track \notin jbLog.played
             /\ jbLog.wasPlaying =>
                    /\ currentTrack = jbLog.current
                    /\ currentTrack \in playing

\* The same for the play_files calls of a track other than the current one.
PriorityRuleForOtherTracks ==
    jbLog.track # jbLog.current => C20_PriorityRule

\* C21: after stop(name) of the track that was current and playing, the
\* track is no longer on the stack and has been faded out, the other tracks
\* are all still stacked, and the current track is the one of them that was
\* uppermost (None when there is none): stop started it within the call, it
\* is playing and not fading out.
C21_StopPlaysNext ==
    (jbLog.op = "stop" /\ jbLog.current = jbLog.track /\ jbLog.wasPlaying) =>
        /\ jbLog.track \notin Stacked(Stack)
        /\ stPrio[jbLog.track] = None
        /\ jbLog.track \in jbLog.stopped
        /\ jbLog.track \in fading
        /\ Stacked(Stack) = jbLog.rest
        /\ currentTrack = StTop(Stack)
        /\ IF jbLog.rest = {}
           THEN currentTrack = None /\ jbLog.played = {}
           ELSE /\ currentTrack \in jbLog.rest
                /\ \A o \in jbLog.rest : stPrio[o] <= stPrio[currentTrack]
                /\ jbLog.played = {currentTrack}
                /\ currentTrack \in playing
                /\ currentTrack \notin fading

C21_Witness ==
    /\ jbLog.op = "stop"
    /\ jbLog.current = jbLog.track
    /\ jbLog.wasPlaying
    /\ \E o \in jbLog.rest : stPrio[o] < stPrio[currentTrack]

\* ================================================================= Input
\* Input.handlers is the SafePriorityStack of stList and stPrio. What
\* can_handle_input answers is an input of the tick, the set accepts of the
\* pairs <<handler, button>> it is true for; handle_input leaves the Input
\* alone.
MaxHandlers == 2
Handlers == 1..MaxHandlers

\* Input.buttons, in list order.
ButtonOrder == <<"b1", "b2">>
Buttons == {ButtonOrder[i] : i \in DOMAIN ButtonOrder}

\* hasattr(h, 'scene') and h.scene: handler 1 has no scene, handler 2 lives
\* in the overlay scene, the others in the scene of the Input.
HandlerHasScene(h) == h # 1
HandlerScene(h) == IF h = 2 THEN "hud" ELSE "main"

\* SceneDispatch.call_in_scene(h.scene, h.handle_input, btn), or the call of
\* h.handle_input(btn)
HandOver(h, btn) ==
    IF HandlerHasScene(h) /\ HandlerScene(h) # NoScene
           /\ HandlerScene(h) # curScene
    THEN [op |-> "defer", h |-> h, btn |-> btn, r |-> TRUE]
    ELSE [op |-> "call", h |-> h, btn |-> btn, r |-> TRUE]

RECURSIVE OfferFrom(_, _, _, _, _)
RECURSIVE OfferOn(_, _, _, _, _)
RECURSIVE DistributeFrom(_, _, _)

\* The loop over the handlers that goes on after a handler took the button.
OfferOn(trace, accepts, handlers, btn, i) ==
    IF i > Len(handlers) THEN trace
    ELSE LET h == handlers[i]
             r == <<h, btn>> \in accepts
             asked == Append(trace, [op |-> "can", h |-> h, btn |-> btn,
                                     r |-> r])
         IN  OfferOn(IF r THEN Append(asked, HandOver(h, btn)) ELSE asked,
                     accepts, handlers, btn, i + 1)

\* The loop of distribute_events over self.handlers for one button, from the
\* i-th of the valid handlers: it breaks at the first that can handle it.
OfferFrom(trace, accepts, handlers, btn, i) ==
    IF i > Len(handlers) THEN trace
    ELSE LET h == handlers[i]
             r == <<h, btn>> \in accepts
             asked == Append(trace, [op |-> "can", h |-> h, btn |-> btn,
                                     r |-> r])
         IN  IF r THEN Append(asked, HandOver(h, btn))
             ELSE OfferFrom(asked, accepts, handlers, btn, i + 1)

\* The loop of distribute_events over self.buttons, from the k-th.
DistributeFrom(trace, accepts, k) ==
    IF k > Len(ButtonOrder) THEN trace
    ELSE DistributeFrom(OfferFrom(trace, accepts, ValidItems(stList),
                                  ButtonOrder[k], 1),
                        accepts, k + 1)

\* Input.distribute_events
DistributeEvents(accepts) == DistributeFrom(<<>>, accepts, 1)

\* ---------------------------------------------------------- input actions
HandlersBecome(st, rec, giv) ==
    /\ stList' = st.list
    /\ stPrio' = st.prio
    /\ recency' = rec
    /\ given' = giv
    /\ inputLog' = NoInput
    /\ UNCHANGED stValid
    /\ UNCHANGED <<vars, notInput>>

\* Input.add_handler
InputAddHandler ==
    \E handler \in Handlers, priority \in Priorities :
        HandlersBecome(
            StPush(Stack, handler, priority),
            IF handler \in stValid
            THEN LET rest == Without(recency, handler)
                     Lower(x) == given[x] <= priority
                     Higher(x) == given[x] > priority
                 IN  SelectSeq(rest, Lower) \o <<handler>>
                         \o SelectSeq(rest, Higher)
            ELSE Without(recency, handler),
            [given EXCEPT ![handler] = IF handler \in stValid THEN priority
                                       ELSE None])

\* Input.remove_handler
InputRemoveHandler ==
    \E handler \in Handlers :
        HandlersBecome(StDiscard(Stack, handler), Without(recency, handler),
                       [given EXCEPT ![handler] = None])

\* The engine frees the game object of a handler.
InputInvalidate ==
    /\ \E handler \in stValid \cap Handlers : stValid' = stValid \ {handler}
    /\ inputLog' = NoInput
    /\ UNCHANGED <<stList, stPrio, recency, given>>
    /\ UNCHANGED <<vars, notInput>>

\* Input.process: distribute_events at a tick
InputDistribute ==
    \E accepts \in SUBSET (Handlers \X Buttons) :
        /\ inputLog' = [ran |-> TRUE, trace |-> DistributeEvents(accepts)]
        /\ UNCHANGED stackVars
        /\ UNCHANGED <<vars, notInput>>

InitInput ==
    /\ StoryIdle
    /\ PartsIdle

NextInput ==
    InputAddHandler \/ InputRemoveHandler \/ InputInvalidate \/ InputDistribute

SpecInput == InitInput /\ [][NextInput]_<<vars, partVars>>

\* The can_handle_input calls and the handle_input calls for a button, in
\* the order they were made.
Asked(btn) ==
    LET Is(e) == e.op = "can" /\ e.btn = btn
    IN  SelectSeq(inputLog.trace, Is)

Handed(btn) ==
    LET Is(e) == e.op # "can" /\ e.btn = btn
    IN  SelectSeq(inputLog.trace, Is)

\* C22: at a tick the buttons are dealt with one after the other, in list
\* order; for each, can_handle_input is asked of the valid handlers from the
\* top of the stack down (higher priority first, at equal priority the later
\* added first), up to the first that answers true: handle_input is called
\* on, or queued for the scene of, that handler and no other, straight after
\* its answer; when none answers true, all were asked and none is called.
C22_FirstTakerOnly ==
    inputLog.ran =>
        LET V == ValidItems(stList)
            t == inputLog.trace
        IN  /\ \A i, j \in DOMAIN V : i < j => Before(V[i], V[j])
            /\ \A i, j \in DOMAIN t :
                   i < j => \E m, n \in DOMAIN ButtonOrder :
                                /\ m <= n
                                /\ t[i].btn = ButtonOrder[m]
                                /\ t[j].btn = ButtonOrder[n]
            /\ \A i \in DOMAIN t :
                   t[i].op # "can" =>
                       /\ i > 1
                       /\ t[i - 1] = [op |-> "can", h |-> t[i].h,
                                      btn |-> t[i].btn, r |-> TRUE]
                       /\ t[i].op = IF t[i].h = 2 /\ curScene # "hud"
                                    THEN "defer" ELSE "call"
            /\ \A btn \in Buttons :
                   LET a == Asked(btn)
                       h == Handed(btn)
                   IN  /\ Len(a) <= Len(V)
                       /\ \A i \in DOMAIN a :
                              /\ a[i].h = V[i]
                              /\ i < Len(a) => ~a[i].r
                       /\ IF a # <<>> /\ a[Len(a)].r
                          THEN Len(h) = 1 /\ h[1].h = a[Len(a)].h
                          ELSE Len(a) = Len(V) /\ h = <<>>

C22_Witness ==
    /\ inputLog.ran
    /\ Len(ValidItems(stList)) = 2
    /\ given[1] = given[2]
    /\ Len(Asked("b1")) = 2 /\ Len(Handed("b1")) = 1
    /\ Len(Asked("b2")) = 1 /\ Len(Handed("b2")) = 1

\* ================================================================ Button
\* A Button as the record of its fields. The sensors that can be bound to
\* it are a keyboard key and a joystick button; which of them is positive at
\* an update is an input of the update.
MaxUpdates == 4
SensorNames == {"key", "joy"}
SourceOf(s) == IF s = "key" THEN SRC_KEYBOARD ELSE SRC_JOYSTICK

Button ==
    [sensors |-> btnSensors, positive |-> btnPositive,
     triggered |-> btnTriggered, source |-> btnSource]

\* Button.activated
Activated(b) == b.positive /\ b.triggered

\* The loop of Button.update over the sensors: whether one is positive, and
\* the sources of those that are, or-ed together (they are distinct bits).
Positive(b, active) == b.sensors \cap active # {}

RECURSIVE Sources(_)
Sources(ss) ==
    IF ss = {} THEN SRC_NONE
    ELSE LET s == CHOOSE x \in ss : TRUE
         IN  SourceOf(s) + Sources(ss \ {s})

\* Button.update that takes triggered to be the level of the button.
ButtonUpdateLevel(b, active) ==
    [b EXCEPT !.triggered = Positive(b, active),
              !.positive = Positive(b, active),
              !.source = Sources(b.sensors \cap active)]

\* Button.update
ButtonUpdate(b, active) ==
    LET positive == Positive(b, active)
        b1 == IF positive # b.positive
              THEN [b EXCEPT !.triggered = TRUE, !.positive = positive]
              ELSE [b EXCEPT !.triggered = FALSE]
    IN  [b1 EXCEPT !.source = Sources(b.sensors \cap active)]

\* --------------------------------------------------------- button actions
ButtonBecomes(b) ==
    /\ btnSensors' = b.sensors
    /\ btnPositive' = b.positive
    /\ btnTriggered' = b.triggered
    /\ btnSource' = b.source
    /\ UNCHANGED <<vars, notButton>>

\* Button.bind
ButtonBind ==
    \E s \in SensorNames :
        /\ ButtonBecomes([Button EXCEPT !.sensors = @ \cup {s}])
        /\ UNCHANGED downs

\* Button.unbind
ButtonUnbind ==
    \E s \in SensorNames :
        /\ ButtonBecomes([Button EXCEPT !.sensors = @ \ {s}])
        /\ UNCHANGED downs

\* Input.update_buttons at a tick: Button.update
ButtonUpdateCall ==
    \E active \in SUBSET SensorNames :
        /\ Len(downs) < MaxUpdates
        /\ ButtonBecomes(ButtonUpdate(Button, active))
        /\ downs' = Append(downs, btnSensors \cap active # {})

InitButton ==
    /\ StoryIdle
    /\ PartsIdle

NextButton == ButtonBind \/ ButtonUnbind \/ ButtonUpdateCall

SpecButton == InitButton /\ [][NextButton]_<<vars, partVars>>

\* C23: after an update, activated is true exactly when the button was down
\* at that update and was not down at the update before (nor, at the first
\* update, before it); so it is false at every later update of a button that
\* is held down.
C23_ActivatedOnPress ==
    downs # <<>> =>
        LET n == Len(downs)
        IN  Activated(Button) <=> (downs[n] /\ (n = 1 \/ ~downs[n - 1]))

C23_Witness ==
    /\ downs = <<TRUE, TRUE, FALSE, TRUE>>
    /\ Activated(Button)
    /\ btnSource = SRC_KEYBOARD + SRC_JOYSTICK

\* ========================================================= debug tracing
\* The tick with the tracing of the blocked transitions in it. The machine
\* record carries three more fields: debug, State.log.isEnabledFor(10);
\* bt, the local blocked_transitions of the State.progress call under way
\* ([on |-> FALSE] stands for None); blocked, State.blocked_transitions of
\* every state.
ShortName(c) ==
    CASE c.kind = "sensor"  -> "Sens"
      [] c.kind = "event"   -> "Evt"
      [] c.kind = "eventEq" -> "EvtEQ"
      [] c.kind = "eventNe" -> "EvtNE"
      [] c.kind = "wait"    -> "Wait"

\* '%s#%s' % (self.name, failed_condition.get_short_name())
BlockedName(s, c) == s \o "#" \o ShortName(c)

NoBlocked == [on |-> FALSE, names |-> {}]

RECURSIVE TestTracedFrom(_, _, _, _, _)
RECURSIVE TestTracedLenient(_, _, _, _, _)
RECURSIVE ScanTraced(_, _, _, _)

\* State.test that, when it notes a failed condition, goes on to the next.
TestTracedLenient(m, s, cs, i, sens) ==
    IF i > Len(cs) THEN [m |-> Logged(m, "pass", s, ""), ok |-> TRUE]
    ELSE LET r == Evaluate(m, cs[i], sens)
             m1 == Logged(m, "eval" \o r, cs[i].owner, cs[i].kind)
         IN  CASE r = "E" -> [m |-> [m1 EXCEPT !.err = TRUE], ok |-> FALSE]
               [] r = "F" /\ ~m1.bt.on ->
                    [m |-> Logged(m1, "block", s, ""), ok |-> FALSE]
               [] r = "F" /\ m1.bt.on ->
                    TestTracedLenient(
                        [m1 EXCEPT !.bt.names = @ \cup {BlockedName(s, cs[i])}],
                        s, cs, i + 1, sens)
               [] OTHER   -> TestTracedLenient(m1, s, cs, i + 1, sens)

\* State.test(c, blocked_transitions): the conditions in order; the first
\* that fails is noted in blocked_transitions unless that is None.
TestTracedFrom(m, s, cs, i, sens) ==
    IF i > Len(cs) THEN [m |-> Logged(m, "pass", s, ""), ok |-> TRUE]
    ELSE LET r == Evaluate(m, cs[i], sens)
             m1 == Logged(m, "eval" \o r, cs[i].owner, cs[i].kind)
         IN  CASE r = "E" -> [m |-> [m1 EXCEPT !.err = TRUE], ok |-> FALSE]
               [] r = "F" ->
                    LET m2 == IF m1.bt.on
                              THEN [m1 EXCEPT !.bt.names =
                                                 @ \cup {BlockedName(s, cs[i])}]
                              ELSE m1
                    IN  [m |-> Logged(m2, "block", s, ""), ok |-> FALSE]
               [] OTHER   -> TestTracedFrom(m1, s, cs, i + 1, sens)

TestTraced(m, s, sens) ==
    TestTracedFrom(Logged(m, "test", s, ""), s, Conditions(s), 1, sens)

\* The second loop of State.progress, with blocked_transitions.
ScanTraced(m, ts, i, sens) ==
    IF i > Len(ts) \/ m.err THEN [m |-> m, target |-> NoState]
    ELSE LET t == TestTraced(m, ts[i], sens)
         IN  IF t.ok THEN [m |-> t.m, target |-> ts[i]]
             ELSE ScanTraced(t.m, ts, i + 1, sens)

\* The one element of a set of one.
Only(S) == CHOOSE x \in S : TRUE

\* The end of State.progress: blocked_transitions is kept when it is not
\* None and differs from what the state has; the target is returned.
ProgressReturn(p, s) ==
    IF p.m.err THEN p
    ELSE LET m3 == IF p.m.bt.on /\ p.m.bt.names # p.m.blocked[s]
                   THEN [p.m EXCEPT !.blocked[s] = p.m.bt.names]
                   ELSE p.m
         IN  [m |-> Logged(m3, "return", p.target, ""), target |-> p.target]

\* State.progress: the sub-steps are tested with None for
\* blocked_transitions, the transitions with a set when the log is enabled
\* for the debug level.
StateProgressTraced(m, s, sens, raises) ==
    Only({ProgressReturn(p, s) :
            p \in {ScanTraced(At(IF m1.err THEN m1
                                 ELSE [m1 EXCEPT !.bt = [on |-> m.debug,
                                                         names |-> {}]],
                                 s, "scan"),
                              Transitions(s), 1, sens) :
                     m1 \in {RunSubSteps(
                                Logged(At([m EXCEPT !.bt = NoBlocked], s, "sub"),
                                       "progress", s, ""),
                                SubSteps(s), 1, sens, raises)}}})

\* The second half of Chapter.progress: the super state.
SuperProgressTraced(m, sens, raises) ==
    IF SuperState = NoState THEN m
    ELSE Only({IF p.m.err \/ p.target = NoState THEN p.m
               ELSE Transition([Deactivate(At(p.m, SuperState, "super"),
                                           SuperState)
                                   EXCEPT !.sa = FALSE],
                               p.target, raises) :
                 p \in {StateProgressTraced(
                           IF m.sa THEN m
                           ELSE [Activate(At(m, SuperState, "super"),
                                          SuperState, raises)
                                    EXCEPT !.sa = TRUE],
                           SuperState, sens, raises)}})

\* Chapter.progress
ChapterProgressTraced(m, sens, raises) ==
    Only({IF p.m.err THEN p.m
          ELSE IF p.target # NoState THEN Transition(p.m, p.target, raises)
          ELSE SuperProgressTraced(p.m, sens, raises) :
            p \in {IF m.cur = NoState THEN [m |-> m, target |-> NoState]
                   ELSE StateProgressTraced(m, m.cur, sens, raises)}})

MachineTraced(debug) ==
    [cur |-> currentState, sa |-> super_active, lis |-> listeners,
     trig |-> triggered, start |-> start, log |-> <<>>, err |-> FALSE,
     hops |-> hops, ctx |-> "", ph |-> "",
     debug |-> debug, bt |-> NoBlocked, blocked |-> blockedTransitions]

\* What a tick leaves of the machine, the tracing apart.
Untraced(m) ==
    [cur |-> m.cur, sa |-> m.sa, lis |-> m.lis, trig |-> m.trig,
     start |-> m.start, log |-> m.log, err |-> m.err, hops |-> m.hops]

\* One engine tick at either log level; twin is the same tick at the other.
DebugProgress ==
    /\ ticks < MaxTicks
    /\ \E sens \in SUBSET Sensors, raises \in SUBSET Faulty, debug \in BOOLEAN :
         \E m \in {ChapterProgressTraced(MachineTraced(debug), sens, raises)} :
             /\ currentState' = m.cur
             /\ super_active' = m.sa
             /\ listeners' = m.lis
             /\ triggered' = m.trig
             /\ start' = m.start
             /\ log' = m.log
             /\ failed' = m.err
             /\ hops' = m.hops
             /\ entered' = IF m.hops > hops THEN now ELSE entered
             /\ blockedTransitions' = m.blocked
             /\ twin' = [ran |-> TRUE,
                         m |-> Untraced(ChapterProgressTraced(
                                   MachineTraced(~debug), sens, raises))]
    /\ since' = entered
    /\ ticks' = ticks + 1
    /\ UNCHANGED <<story, now>>
    /\ UNCHANGED notDebug

\* Another object sends an event: EventBus.notify with no delay.
DebugNotify ==
    /\ \E evt \in Events :
         triggered' = BusNotify(Machine, evt).trig
    /\ twin' = NoTwin
    /\ UNCHANGED <<story, currentState, super_active, listeners, start, now,
                   log, failed, ticks, hops, entered, since>>
    /\ UNCHANGED <<blockedTransitions, notDebug>>

\* The ticks all come at the same time of the clock: a CondWait that has
\* been enabled stays false.
NextDebug == DebugProgress \/ DebugNotify

\* The stories whose state A is gated by a sensor and an event, and B by a
\* sensor.
DebugStories ==
    {st \in Stories : /\ st.conds["A"] = <<"sensor", "eventEq">>
                      /\ st.conds["B"] = <<"sensor">>}

InitDebug ==
    /\ PartsIdle
    /\ story \in DebugStories
    /\ ChapterInit

SpecDebug == InitDebug /\ [][NextDebug]_<<vars, partVars>>

\* C24: a tick leaves the same trace (the same sub-steps tested and
\* executed, the same transitions tested, the same target returned by every
\* State.progress call) and the same machine whether State.log is enabled
\* for the debug level or not.
C24_TracingIsInert ==
    twin.ran =>
        twin.m = [cur |-> currentState, sa |-> super_active,
                  lis |-> listeners, trig |-> triggered, start |-> start,
                  log |-> log, err |-> failed, hops |-> hops]

C24_Witness ==
    /\ twin.ran
    /\ "A#Sens" \in blockedTransitions["Root"]
    /\ \E i \in DOMAIN log : log[i].op = "exec" /\ log[i].ph = "sub"
    /\ \E i \in DOMAIN log : log[i].op = "return" /\ log[i].a = "B"

====
